---- MODULE Spec2Model ----
(***************************************************************************)
(* Trade discovery and capital allocation of poe-market-analysis:         *)
(*   scripts/phrecia_strategy.py              (finders, allocators,        *)
(*                                             simulate_daily_strategy)    *)
(*   scripts/phrecia_profit_timeline_gantt.py (build_trades,               *)
(*                                             optimize_trades)            *)
(*   scripts/phrecia_time_series_analysis.py  (best_trade)                 *)
(*                                                                         *)
(* Numbers.  The scripts compute with Python floats.  The model computes   *)
(* with exact rationals <<numerator, denominator>> in lowest terms with a  *)
(* positive denominator, so every equality below is an equality of exact   *)
(* values; the rounding of IEEE doubles is not represented.  Dates are     *)
(* day ordinals 1, 2, 3, ... (a contiguous date list is 1..n).             *)
(***************************************************************************)
EXTENDS Integers, Sequences, FiniteSets, TLC

\* ---------------------------------------------------------------- bounds
\* Longest date list / latest priced day.
MaxDates == 3
\* Prices of the price maps are drawn from -1..MaxPrice (-1 and 0 are unusable
\* as buy prices).
MaxPrice == 3
\* Longest opportunity list handed to an allocator on its own.
MaxOpps == 3
\* Longest price series handed to best_trade.
MaxLen == 4
\* Most rows of an input file handed to a loader.
MaxRows == 3

\* ------------------------------------------------------- float arithmetic
Abs(n) == IF n < 0 THEN -n ELSE n

RECURSIVE GCD(_, _)
GCD(a, b) == IF b = 0 THEN a ELSE GCD(b, a % b)

\* A float value: the fraction n/d in lowest terms, d > 0.
Norm(n, d) ==
    LET g == GCD(Abs(n), Abs(d))
        s == IF d < 0 THEN -1 ELSE 1
    IN  <<(s * n) \div g, (s * d) \div g>>

Float(n) == <<n, 1>>
Add(x, y) == Norm(x[1] * y[2] + y[1] * x[2], x[2] * y[2])
Sub(x, y) == Norm(x[1] * y[2] - y[1] * x[2], x[2] * y[2])
Mul(x, y) == Norm(x[1] * y[1], x[2] * y[2])
Div(x, y) == Norm(x[1] * y[2], x[2] * y[1])
Lt(x, y) == x[1] * y[2] < y[1] * x[2]
Le(x, y) == x[1] * y[2] <= y[1] * x[2]
Gt(x, y) == Lt(y, x)
Ge(x, y) == Le(y, x)
Zero == Float(0)

\* sum(f(item) for item in seq), starting from 0 as the builtin does.
RECURSIVE SumSeq(_)
SumSeq(s) == IF s = <<>> THEN Zero ELSE Add(SumSeq(SubSeq(s, 1, Len(s) - 1)), s[Len(s)])

\* ------------------------------------------------------------- constants
\* STARTING_CAPITAL = 100.0: the value the scripts assign to their global.
ShippedCapital == Float(100)

\* The assets of a price map, in the iteration order of the dict (the order
\* in which the loader first saw them).
AssetOrder == <<"a", "b">>
Assets == {AssetOrder[i] : i \in 1..Len(AssetOrder)}

Days == 1..MaxDates
PriceValues == {Float(p) : p \in -1..MaxPrice}
\* One asset's series: a dict from some of the days to a price.
SeriesOver(days) == UNION {[S -> PriceValues] : S \in SUBSET days}
DateList(n) == [i \in 1..n |-> i]

StrategyNames == {"all_in", "equal_split", "greedy_one_unit"}

VARIABLES
    pc,             \* position of the running script
    dates,          \* the date list
    prices,         \* price map: asset_id -> (day -> price)
    starting_capital, \* the module global STARTING_CAPITAL
    strategy_name,  \* simulate_daily_strategy: the policy
    idx,            \* loop index of the running loop (1-based)
    capital,        \* simulate_daily_strategy: running capital
    trades,         \* simulate_daily_strategy: realized trades
    summaries,      \* simulate_daily_strategy: DailySummary list
    best_daily,     \* main: result of compute_best_daily_choices
    opportunities,  \* main: result of build_opportunities
    ending_capital, \* main: capital returned by simulate_daily_strategy
    daily_opps,     \* allocator call: the opportunity list passed in
    alloc,          \* allocator call: policy, capital and result
    best_capital,   \* optimize_trades: date -> best capital
    prev,           \* optimize_trades: date -> (previous date, trade or None)
    current,        \* optimize_trades: reconstruction cursor
    path_trades,    \* optimize_trades: collected log entries
    log,            \* run_bucket: the log returned by optimize_trades
    values,         \* best_trade: the DailyValue series
    bt,             \* best_trade: locals of the scan and the result
    pt,             \* iter_profitable_trades: arguments, inner index, yielded tuples
    loader,         \* load_*_prices: which loader runs ("currency" or "item")
    rows,           \* load_*_prices: the rows csv.DictReader reads from the file
    sums,           \* load_*_prices: key -> sum of Value, in insertion order
    counts,         \* load_*_prices: key -> number of rows, in insertion order
    meta,           \* load_*_prices: asset_id -> AssetMeta
    script,         \* the script whose main() runs
    present,        \* main: the input files that exist on disk
    created,        \* main: the directories and files the run has created
    error,          \* main: the exception that ended the run, or None
    bucket,         \* timeline main: the bucket run_bucket was called for
    position        \* switching simulator: the open positions

vars == <<pc, dates, prices, starting_capital, strategy_name, idx, capital, trades, summaries,
          best_daily, opportunities, ending_capital, daily_opps, alloc, best_capital, prev, current, path_trades,
          log, values, bt, pt, loader, rows, sums, counts, meta,
          script, present, created, error, bucket, position>>

\* The global STARTING_CAPITAL as the functions read it when they run.
STARTING_CAPITAL == starting_capital

\* None where an asset id is expected, and None where a float is expected.
None == "None"
NoFloat == <<>>

\* ------------------------------------------------- phrecia_strategy.py
Opportunity(asset_id, buy_date, sell_date, buy_price, sell_price, gain_pct) ==
    [asset_id |-> asset_id, buy_date |-> buy_date, sell_date |-> sell_date,
     buy_price |-> buy_price, sell_price |-> sell_price, gain_pct |-> gain_pct]

Trade(asset_id, buy_date, sell_date, buy_price, sell_price, units, capital_start, capital_end) ==
    [asset_id |-> asset_id, asset_type |-> "", buy_date |-> buy_date,
     sell_date |-> sell_date, buy_price |-> buy_price, sell_price |-> sell_price,
     units |-> units, capital_start |-> capital_start, capital_end |-> capital_end]

DailySummary(day, capital_start, capital_end, invested, cash_left, trade_count) ==
    [day |-> day, capital_start |-> capital_start, capital_end |-> capital_end,
     invested |-> invested, cash_left |-> cash_left, trade_count |-> trade_count]

\* opportunities.setdefault(day, []).append(opp)
SetDefaultAppend(opps, day, opp) ==
    IF day \in DOMAIN opps
    THEN [opps EXCEPT ![day] = Append(@, opp)]
    ELSE [d \in DOMAIN opps \cup {day} |-> IF d = day THEN <<opp>> ELSE opps[d]]

\* BuildOppsBody that skips only a buy price of exactly zero, so that a
\* negative buy price makes an opportunity.
BuildOppsBody_NegativeBuyAllowed(opps, dts, prc, asset_id, i) ==
    LET series == prc[asset_id]
        day == dts[i]
        next_day == dts[i + 1]
    IN  IF day \notin DOMAIN series \/ next_day \notin DOMAIN series
        THEN opps
        ELSE LET buy_price == series[day]
                 sell_price == series[next_day]
             IN  IF buy_price = Zero \/ Le(sell_price, buy_price)
                 THEN opps
                 ELSE SetDefaultAppend(opps, day,
                        Opportunity(asset_id, day, next_day, buy_price, sell_price,
                                    Div(Sub(sell_price, buy_price), buy_price)))

\* BuildOppsBody that skips only a falling price (< for <=), so that a pair
\* whose price holds makes an opportunity of gain 0.
BuildOppsBody_KeepsFlatPairs(opps, dts, prc, asset_id, i) ==
    LET series == prc[asset_id]
        day == dts[i]
        next_day == dts[i + 1]
    IN  IF day \notin DOMAIN series \/ next_day \notin DOMAIN series
        THEN opps
        ELSE LET buy_price == series[day]
                 sell_price == series[next_day]
             IN  IF Le(buy_price, Zero) \/ Lt(sell_price, buy_price)
                 THEN opps
                 ELSE SetDefaultAppend(opps, day,
                        Opportunity(asset_id, day, next_day, buy_price, sell_price,
                                    Div(Sub(sell_price, buy_price), buy_price)))

\* BuildOppsBody that skips only a negative buy price (< for <=), so that a
\* buy price of zero reaches the division and the allocators.
BuildOppsBody_ZeroBuyAllowed(opps, dts, prc, asset_id, i) ==
    LET series == prc[asset_id]
        day == dts[i]
        next_day == dts[i + 1]
    IN  IF day \notin DOMAIN series \/ next_day \notin DOMAIN series
        THEN opps
        ELSE LET buy_price == series[day]
                 sell_price == series[next_day]
             IN  IF Lt(buy_price, Zero) \/ Le(sell_price, buy_price)
                 THEN opps
                 ELSE SetDefaultAppend(opps, day,
                        Opportunity(asset_id, day, next_day, buy_price, sell_price,
                                    Div(Sub(sell_price, buy_price), buy_price)))

\* BuildOppsBody without the sell_price <= buy_price guard, so that a pair
\* whose price falls makes an opportunity of negative gain.
BuildOppsBody_KeepsLosingPairs(opps, dts, prc, asset_id, i) ==
    LET series == prc[asset_id]
        day == dts[i]
        next_day == dts[i + 1]
    IN  IF day \notin DOMAIN series \/ next_day \notin DOMAIN series
        THEN opps
        ELSE LET buy_price == series[day]
                 sell_price == series[next_day]
             IN  IF Le(buy_price, Zero)
                 THEN opps
                 ELSE SetDefaultAppend(opps, day,
                        Opportunity(asset_id, day, next_day, buy_price, sell_price,
                                    Div(Sub(sell_price, buy_price), buy_price)))

\* Body of the inner loop of build_opportunities for one asset and one index.
BuildOppsBody(opps, dts, prc, asset_id, i) ==
    LET series == prc[asset_id]
        day == dts[i]
        next_day == dts[i + 1]
    IN  IF day \notin DOMAIN series \/ next_day \notin DOMAIN series
        THEN opps
        ELSE LET buy_price == series[day]
                 sell_price == series[next_day]
             IN  IF Le(buy_price, Zero) \/ Le(sell_price, buy_price)
                 THEN opps
                 ELSE SetDefaultAppend(opps, day,
                        Opportunity(asset_id, day, next_day, buy_price, sell_price,
                                    Div(Sub(sell_price, buy_price), buy_price)))

\* for idx in range(len(dates) - 1), from index i on.
RECURSIVE BuildOppsDays(_, _, _, _, _)
BuildOppsDays(opps, dts, prc, asset_id, i) ==
    IF i > Len(dts) - 1 THEN opps
    ELSE BuildOppsDays(BuildOppsBody(opps, dts, prc, asset_id, i), dts, prc, asset_id, i + 1)

\* for asset_id, series in prices.items(), from the k-th asset on.
RECURSIVE BuildOppsAssets(_, _, _, _)
BuildOppsAssets(opps, dts, prc, k) ==
    IF k > Len(AssetOrder) THEN opps
    ELSE BuildOppsAssets(BuildOppsDays(opps, dts, prc, AssetOrder[k], 1), dts, prc, k + 1)

build_opportunities(dts, prc) == BuildOppsAssets(<<>>, dts, prc, 1)

\* opportunities.get(day, [])
OppsGet(opps, day) == IF day \in DOMAIN opps THEN opps[day] ELSE <<>>

DailyChoice(day, asset_id, asset_type, buy_price, sell_price, factor) ==
    [day |-> day, asset_id |-> asset_id, asset_type |-> asset_type,
     buy_price |-> buy_price, sell_price |-> sell_price, factor |-> factor]

\* BestChoiceBody that also takes an asset whose factor equals the best so far
\* (>= for >), so that an asset that only holds its price is recorded.
BestChoiceBody_AcceptsEqual(b, day, next_day, prc, asset_id) ==
    LET series == prc[asset_id]
    IN  IF day \notin DOMAIN series \/ next_day \notin DOMAIN series
        THEN b
        ELSE LET buy_price == series[day]
                 sell_price == series[next_day]
             IN  IF Le(buy_price, Zero)
                 THEN b
                 ELSE LET factor == Div(sell_price, buy_price)
                      IN  IF Ge(factor, b.factor)
                          THEN DailyChoice(day, asset_id, None, buy_price, sell_price, factor)
                          ELSE b

\* Body of the inner loop of compute_best_daily_choices: one asset against the
\* best found so far for (day, next_day).
BestChoiceBody(b, day, next_day, prc, asset_id) ==
    LET series == prc[asset_id]
    IN  IF day \notin DOMAIN series \/ next_day \notin DOMAIN series
        THEN b
        ELSE LET buy_price == series[day]
                 sell_price == series[next_day]
             IN  IF Le(buy_price, Zero)
                 THEN b
                 ELSE LET factor == Div(sell_price, buy_price)
                      IN  IF Gt(factor, b.factor)
                          THEN DailyChoice(day, asset_id, None, buy_price, sell_price, factor)
                          ELSE b

\* for asset_id, series in prices.items(), from the k-th asset on.
RECURSIVE BestChoiceAssets(_, _, _, _, _)
BestChoiceAssets(b, day, next_day, prc, k) ==
    IF k > Len(AssetOrder) THEN b
    ELSE BestChoiceAssets(BestChoiceBody(b, day, next_day, prc, AssetOrder[k]),
                          day, next_day, prc, k + 1)

\* asset_type = meta[best_asset].asset_type if best_asset else None, on the
\* locals b the inner loop ended with.
BestChoiceRecord(b, mt) ==
    [b EXCEPT !.asset_type = IF b.asset_id # None THEN mt[b.asset_id].asset_type
                             ELSE None]

\* compute_best_daily_choices looping over range(len(dates)): the final date
\* gets a record too, with no asset since it has no next day.
compute_best_daily_choices_IncludesLastDate(dts, prc, mt) ==
    [day \in {dts[i] : i \in 1..Len(dts)} |->
        LET i == CHOOSE j \in 1..Len(dts) : dts[j] = day
        IN  IF i = Len(dts)
            THEN DailyChoice(day, None, None, NoFloat, NoFloat, Float(1))
            ELSE BestChoiceRecord(
                     BestChoiceAssets(DailyChoice(day, None, None, NoFloat, NoFloat, Float(1)),
                                      day, dts[i + 1], prc, 1), mt)]

\* compute_best_daily_choices that leaves out a best asset whose metadata
\* says it is a currency: the day is recorded as having no choice.
compute_best_daily_choices_SkipsCurrency(dts, prc, mt) ==
    [day \in {dts[i] : i \in 1..(Len(dts) - 1)} |->
        LET i == CHOOSE j \in 1..(Len(dts) - 1) : dts[j] = day
            b == BestChoiceRecord(
                     BestChoiceAssets(DailyChoice(day, None, None, NoFloat, NoFloat, Float(1)),
                                      day, dts[i + 1], prc, 1), mt)
        IN  IF b.asset_type = "currency"
            THEN DailyChoice(day, None, None, NoFloat, NoFloat, Float(1))
            ELSE b]

\* best[day] for every index of range(len(dates) - 1).
compute_best_daily_choices(dts, prc, mt) ==
    [day \in {dts[i] : i \in 1..(Len(dts) - 1)} |->
        LET i == CHOOSE j \in 1..(Len(dts) - 1) : dts[j] = day
        IN  BestChoiceRecord(
                BestChoiceAssets(DailyChoice(day, None, None, NoFloat, NoFloat, Float(1)),
                                 day, dts[i + 1], prc, 1), mt)]

\* MaxByGainPct with the wrong key: the greatest sell_price - buy_price.
RECURSIVE MaxByGainPct_ByAbsoluteGain(_, _, _)
MaxByGainPct_ByAbsoluteGain(opps, i, best) ==
    IF i > Len(opps) THEN best
    ELSE MaxByGainPct_ByAbsoluteGain(opps, i + 1,
            IF Gt(Sub(opps[i].sell_price, opps[i].buy_price),
                  Sub(best.sell_price, best.buy_price))
            THEN opps[i] ELSE best)

\* MaxByGainPct that takes the first opportunity of the list whatever its
\* gain.
MaxByGainPct_FirstOpportunity(opps, i, best) == opps[1]

\* max(opportunities, key=gain_pct): the first element with the greatest key.
RECURSIVE MaxByGainPct(_, _, _)
MaxByGainPct(opps, i, best) ==
    IF i > Len(opps) THEN best
    ELSE MaxByGainPct(opps, i + 1,
                      IF Gt(opps[i].gain_pct, best.gain_pct) THEN opps[i] ELSE best)

AllocResult(day_trades, cash_left) == [trades |-> day_trades, cash_left |-> cash_left]

\* allocate_all_in returning the capital as leftover although it is invested.
allocate_all_in_KeepsCash(opps, cap) ==
    IF opps = <<>> THEN AllocResult(<<>>, cap)
    ELSE LET best == MaxByGainPct(opps, 2, opps[1])
             units == Div(cap, best.buy_price)
         IN  AllocResult(<<Trade(best.asset_id, best.buy_date, best.sell_date,
                                 best.buy_price, best.sell_price, units,
                                 cap, Mul(units, best.sell_price))>>,
                         cap)

allocate_all_in(opps, cap) ==
    IF opps = <<>> THEN AllocResult(<<>>, cap)
    ELSE LET best == MaxByGainPct(opps, 2, opps[1])
             units == Div(cap, best.buy_price)
         IN  AllocResult(<<Trade(best.asset_id, best.buy_date, best.sell_date,
                                 best.buy_price, best.sell_price, units,
                                 cap, Mul(units, best.sell_price))>>,
                         Zero)

\* allocate_equal_split that gives every opportunity the whole capital (the
\* division by len(opportunities) forgotten).
allocate_equal_split_Undivided(opps, cap) ==
    IF opps = <<>> THEN AllocResult(<<>>, cap)
    ELSE LET allocation == cap
         IN  AllocResult(
                [i \in 1..Len(opps) |->
                    LET opp == opps[i]
                        units == Div(allocation, opp.buy_price)
                    IN  Trade(opp.asset_id, opp.buy_date, opp.sell_date,
                              opp.buy_price, opp.sell_price, units,
                              allocation, Mul(units, opp.sell_price))],
                Zero)

allocate_equal_split(opps, cap) ==
    IF opps = <<>> THEN AllocResult(<<>>, cap)
    ELSE LET allocation == Div(cap, Float(Len(opps)))
         IN  AllocResult(
                [i \in 1..Len(opps) |->
                    LET opp == opps[i]
                        units == Div(allocation, opp.buy_price)
                    IN  Trade(opp.asset_id, opp.buy_date, opp.sell_date,
                              opp.buy_price, opp.sell_price, units,
                              allocation, Mul(units, opp.sell_price))],
                Zero)

\* sorted(opportunities, key=gain_pct, reverse=True): stable, so equal keys keep
\* their order in the list.
RECURSIVE InsertDesc(_, _)
InsertDesc(s, x) ==
    IF s = <<>> THEN <<x>>
    ELSE IF Lt(s[Len(s)].gain_pct, x.gain_pct)
         THEN Append(InsertDesc(SubSeq(s, 1, Len(s) - 1), x), s[Len(s)])
         ELSE Append(s, x)

RECURSIVE SortedDesc(_)
SortedDesc(s) ==
    IF s = <<>> THEN <<>>
    ELSE InsertDesc(SortedDesc(SubSeq(s, 1, Len(s) - 1)), s[Len(s)])

\* GreedyLoop that stops at the first opportunity it cannot pay (break for
\* continue) instead of going on to the cheaper ones.
RECURSIVE GreedyLoop_StopsAtFirstSkip(_, _, _, _)
GreedyLoop_StopsAtFirstSkip(order, i, remaining, day_trades) ==
    IF i > Len(order) THEN AllocResult(day_trades, remaining)
    ELSE LET opp == order[i]
         IN  IF Gt(opp.buy_price, remaining)
             THEN AllocResult(day_trades, remaining)
             ELSE GreedyLoop_StopsAtFirstSkip(order, i + 1, Sub(remaining, opp.buy_price),
                             Append(day_trades,
                                    Trade(opp.asset_id, opp.buy_date, opp.sell_date,
                                          opp.buy_price, opp.sell_price, Float(1),
                                          opp.buy_price, opp.sell_price)))

\* The loop of allocate_greedy_one_unit from position i of the sorted list.
RECURSIVE GreedyLoop(_, _, _, _)
GreedyLoop(order, i, remaining, day_trades) ==
    IF i > Len(order) THEN AllocResult(day_trades, remaining)
    ELSE LET opp == order[i]
         IN  IF Gt(opp.buy_price, remaining)
             THEN GreedyLoop(order, i + 1, remaining, day_trades)
             ELSE GreedyLoop(order, i + 1, Sub(remaining, opp.buy_price),
                             Append(day_trades,
                                    Trade(opp.asset_id, opp.buy_date, opp.sell_date,
                                          opp.buy_price, opp.sell_price, Float(1),
                                          opp.buy_price, opp.sell_price)))

allocate_greedy_one_unit(opps, cap) ==
    IF opps = <<>> THEN AllocResult(<<>>, cap)
    ELSE GreedyLoop(SortedDesc(opps), 1, cap, <<>>)

\* The if/elif chain of simulate_daily_strategy.
Allocate(name, opps, cap) ==
    CASE name = "all_in" -> allocate_all_in(opps, cap)
      [] name = "equal_split" -> allocate_equal_split(opps, cap)
      [] name = "greedy_one_unit" -> allocate_greedy_one_unit(opps, cap)

CapitalStarts(ts) == [i \in 1..Len(ts) |-> ts[i].capital_start]
CapitalEnds(ts) == [i \in 1..Len(ts) |-> ts[i].capital_end]

\* SimulateBody that carries only the proceeds to the next day and loses the
\* cash the allocator left.
SimulateBody_DropsCash(s, dts, opps, name) ==
    LET day == dts[s.idx]
        r == Allocate(name, OppsGet(opps, day), s.capital)
        invested == SumSeq(CapitalStarts(r.trades))
        proceeds == SumSeq(CapitalEnds(r.trades))
        capital_next == proceeds
    IN  [idx |-> s.idx + 1,
         capital |-> capital_next,
         trades |-> s.trades \o r.trades,
         summaries |-> Append(s.summaries,
                              DailySummary(day, s.capital, capital_next, invested,
                                           r.cash_left, Len(r.trades)))]

\* One iteration of the loop of simulate_daily_strategy, on the locals s.
SimulateBody(s, dts, opps, name) ==
    LET day == dts[s.idx]
        r == Allocate(name, OppsGet(opps, day), s.capital)
        invested == SumSeq(CapitalStarts(r.trades))
        proceeds == SumSeq(CapitalEnds(r.trades))
        capital_next == Add(r.cash_left, proceeds)
    IN  [idx |-> s.idx + 1,
         capital |-> capital_next,
         trades |-> s.trades \o r.trades,
         summaries |-> Append(s.summaries,
                              DailySummary(day, s.capital, capital_next, invested,
                                           r.cash_left, Len(r.trades)))]

SimulateStart == [idx |-> 1, capital |-> STARTING_CAPITAL, trades |-> <<>>, summaries |-> <<>>]

RECURSIVE SimulateRun(_, _, _, _)
SimulateRun(s, dts, opps, name) ==
    IF s.idx > Len(dts) - 1 THEN s
    ELSE SimulateRun(SimulateBody(s, dts, opps, name), dts, opps, name)

\* simulate_daily_strategy as a function: (summaries, trades, capital).
simulate_daily_strategy(dts, opps, name) == SimulateRun(SimulateStart, dts, opps, name)

\* ----------------------------------------- phrecia_strategy.py, loaders
\* A dict that is iterated: its items as a sequence in insertion order.
OrderedHas(d, key) == \E i \in 1..Len(d) : d[i].key = key
\* d.get(key, default)
OrderedGet(d, key, default) ==
    IF OrderedHas(d, key) THEN d[CHOOSE i \in 1..Len(d) : d[i].key = key].value
    ELSE default
\* d[key] = value: a new key goes last, a present key keeps its place.
OrderedSet(d, key, value) ==
    IF OrderedHas(d, key)
    THEN [i \in 1..Len(d) |-> IF d[i].key = key THEN [key |-> key, value |-> value]
                                                ELSE d[i]]
    ELSE Append(d, [key |-> key, value |-> value])

\* The rows a loader skips.
RowSkipped(ld, row) ==
    IF ld = "currency" THEN row.Pay # "Chaos Orb" ELSE row.Type = "BaseType"

\* The key under which a row is summed; its last component is the date.
RowKey(ld, row) ==
    IF ld = "currency"
    THEN <<row.League, row.Get, row.Date>>
    ELSE <<row.League, row.Id, row.Type, row.Name, row.Variant, row.Links, row.Date>>

\* f"currency|{get}" and f"item|{item_id}|{variant or ''}|{links or ''}": the
\* parts of the string, which determine it.
KeyAssetId(ld, key) ==
    IF ld = "currency" THEN <<"currency", key[2]>> ELSE <<"item", key[2], key[5], key[6]>>

KeyDate(key) == key[Len(key)]

AssetMeta(ld, key) ==
    IF ld = "currency"
    THEN [asset_id |-> KeyAssetId(ld, key), asset_type |-> "currency",
          fields |-> [League |-> key[1], Get |-> key[2], Pay |-> "Chaos Orb",
                      Name |-> key[2]]]
    ELSE [asset_id |-> KeyAssetId(ld, key), asset_type |-> "item",
          fields |-> [League |-> key[1], Id |-> key[2], Type |-> key[3],
                      Name |-> key[4], Variant |-> key[5], Links |-> key[6]]]

\* Body of "for row in reader" on the locals st = (sums, counts).
LoadRowBody(st, ld, row) ==
    IF RowSkipped(ld, row) THEN st
    ELSE LET key == RowKey(ld, row)
         IN  [sums |-> OrderedSet(st.sums, key,
                                  Add(OrderedGet(st.sums, key, Zero), row.Value)),
              counts |-> OrderedSet(st.counts, key,
                                    OrderedGet(st.counts, key, 0) + 1)]

\* prices.setdefault(asset_id, {})[row_date] = value
PricesSet(prc, asset_id, row_date, value) ==
    LET series == IF asset_id \in DOMAIN prc THEN prc[asset_id] ELSE <<>>
        updated == [d \in DOMAIN series \cup {row_date} |->
                       IF d = row_date THEN value ELSE series[d]]
    IN  [a \in DOMAIN prc \cup {asset_id} |-> IF a = asset_id THEN updated ELSE prc[a]]

\* Body of "for key, total in sums.items()" on the results out = (prices, meta).
LoadKeyBody(out, ld, entry, cnts) ==
    LET count == OrderedGet(cnts, entry.key, 0)
        asset_id == KeyAssetId(ld, entry.key)
    IN  [prices |-> PricesSet(out.prices, asset_id, KeyDate(entry.key),
                              Div(entry.value, Float(count))),
         meta |-> IF asset_id \in DOMAIN out.meta THEN out.meta
                  ELSE [a \in DOMAIN out.meta \cup {asset_id} |->
                           IF a = asset_id THEN AssetMeta(ld, entry.key)
                           ELSE out.meta[a]]]

RECURSIVE LoadRows(_, _, _, _)
LoadRows(st, ld, rs, i) ==
    IF i > Len(rs) THEN st ELSE LoadRows(LoadRowBody(st, ld, rs[i]), ld, rs, i + 1)

RECURSIVE LoadKeys(_, _, _, _)
LoadKeys(out, ld, st, i) ==
    IF i > Len(st.sums) THEN out
    ELSE LoadKeys(LoadKeyBody(out, ld, st.sums[i], st.counts), ld, st, i + 1)

\* The (prices, meta) a loader returns for the rows of its file.
LoadPrices(ld, rs) ==
    LoadKeys([prices |-> <<>>, meta |-> <<>>], ld,
             LoadRows([sums |-> <<>>, counts |-> <<>>], ld, rs, 1), 1)
load_currency_prices(rs) == LoadPrices("currency", rs)
load_item_prices(rs) == LoadPrices("item", rs)

\* ------------------------------------ phrecia_profit_timeline_gantt.py
\* Trade of the timeline script (name and type_name only label output rows).
TimelineTrade(asset_id, buy_date, sell_date, buy_price, sell_price) ==
    [asset_id |-> asset_id, buy_date |-> buy_date, sell_date |-> sell_date,
     buy_price |-> buy_price, sell_price |-> sell_price]

TradeLogEntry(trade, capital_start, capital_end, units) ==
    [trade |-> trade, capital_start |-> capital_start, capital_end |-> capital_end,
     units |-> units]

\* The trade of a backpointer that carries cash forward.
NoTrade == [asset_id |-> None]

\* sorted(asset.series.keys())
RECURSIVE SortedKeys(_)
SortedKeys(S) ==
    IF S = {} THEN <<>>
    ELSE LET m == CHOOSE x \in S : \A y \in S : x <= y
         IN  <<m>> \o SortedKeys(S \ {m})

\* for sell_day in days[i + 1:], from position j on.
RECURSIVE BuildTradesSell(_, _, _, _, _, _)
BuildTradesSell(ts, asset_id, series, days, i, j) ==
    IF j > Len(days) THEN ts
    ELSE LET buy_price == series[days[i]]
             sell_price == series[days[j]]
         IN  BuildTradesSell(
                IF Le(sell_price, buy_price) THEN ts
                ELSE Append(ts, TimelineTrade(asset_id, days[i], days[j],
                                              buy_price, sell_price)),
                asset_id, series, days, i, j + 1)

\* BuildTradesBuy without the "if buy_price <= 0: continue" guard.
RECURSIVE BuildTradesBuy_NoBuyGuard(_, _, _, _, _)
BuildTradesBuy_NoBuyGuard(ts, asset_id, series, days, i) ==
    IF i > Len(days) THEN ts
    ELSE BuildTradesBuy_NoBuyGuard(
            BuildTradesSell(ts, asset_id, series, days, i, i + 1),
            asset_id, series, days, i + 1)

\* for i, buy_day in enumerate(days), from position i on.
RECURSIVE BuildTradesBuy(_, _, _, _, _)
BuildTradesBuy(ts, asset_id, series, days, i) ==
    IF i > Len(days) THEN ts
    ELSE BuildTradesBuy(
            IF Le(series[days[i]], Zero) THEN ts
            ELSE BuildTradesSell(ts, asset_id, series, days, i, i + 1),
            asset_id, series, days, i + 1)

\* for asset in series_map.values(), from the k-th asset on.
RECURSIVE BuildTradesAssets(_, _, _)
BuildTradesAssets(ts, series_map, k) ==
    IF k > Len(AssetOrder) THEN ts
    ELSE LET asset_id == AssetOrder[k]
             series == series_map[asset_id]
         IN  BuildTradesAssets(
                BuildTradesBuy(ts, asset_id, series, SortedKeys(DOMAIN series), 1),
                series_map, k + 1)

build_trades(series_map) == BuildTradesAssets(<<>>, series_map, 1)

\* trades_by_buy.get(day, [])
TradesByBuy(ts, day) == SelectSeq(ts, LAMBDA t : t.buy_date = day)

\* d[key] = value on a dict d
DictSet(d, key, value) ==
    [k \in DOMAIN d \cup {key} |-> IF k = key THEN value ELSE d[k]]

\* The locals of optimize_trades before its loop.
OptimizeStart(dts) ==
    [best_capital |-> DictSet(<<>>, dts[1], STARTING_CAPITAL),
     prev |-> DictSet(<<>>, dts[1], <<dts[1], NoTrade>>)]

\* TakeTrades with the comparison turned round: a trade replaces the recorded
\* capital of its sell date when it ends with less.
RECURSIVE TakeTrades_KeepsWorse(_, _, _, _, _)
TakeTrades_KeepsWorse(st, today, cap, day, k) ==
    IF k > Len(today) THEN st
    ELSE LET trade == today[k]
             units == Div(cap, trade.buy_price)
             capital_end == Mul(units, trade.sell_price)
             sell_day == trade.sell_date
         IN  TakeTrades_KeepsWorse(
                IF sell_day \notin DOMAIN st.best_capital
                   \/ Lt(capital_end, st.best_capital[sell_day])
                THEN [best_capital |-> DictSet(st.best_capital, sell_day, capital_end),
                      prev |-> DictSet(st.prev, sell_day, <<day, trade>>)]
                ELSE st,
                today, cap, day, k + 1)

\* TakeTrades recording the sell date itself as the date a trade came from
\* (prev[sell_day] = (sell_day, trade)).
RECURSIVE TakeTrades_PointsAtSellDate(_, _, _, _, _)
TakeTrades_PointsAtSellDate(st, today, cap, day, k) ==
    IF k > Len(today) THEN st
    ELSE LET trade == today[k]
             units == Div(cap, trade.buy_price)
             capital_end == Mul(units, trade.sell_price)
             sell_day == trade.sell_date
         IN  TakeTrades_PointsAtSellDate(
                IF sell_day \notin DOMAIN st.best_capital
                   \/ Gt(capital_end, st.best_capital[sell_day])
                THEN [best_capital |-> DictSet(st.best_capital, sell_day, capital_end),
                      prev |-> DictSet(st.prev, sell_day, <<sell_day, trade>>)]
                ELSE st,
                today, cap, day, k + 1)

\* "take trades starting today", from the k-th trade of today's list on.
RECURSIVE TakeTrades(_, _, _, _, _)
TakeTrades(st, today, cap, day, k) ==
    IF k > Len(today) THEN st
    ELSE LET trade == today[k]
             units == Div(cap, trade.buy_price)
             capital_end == Mul(units, trade.sell_price)
             sell_day == trade.sell_date
         IN  TakeTrades(
                IF sell_day \notin DOMAIN st.best_capital
                   \/ Gt(capital_end, st.best_capital[sell_day])
                THEN [best_capital |-> DictSet(st.best_capital, sell_day, capital_end),
                      prev |-> DictSet(st.prev, sell_day, <<day, trade>>)]
                ELSE st,
                today, cap, day, k + 1)

\* OptimizeBody whose carry-forward always overwrites the next date, also when
\* a trade has already brought more capital there.
OptimizeBody_CarryOverwrites(st, ts, dts, i) ==
    LET day == dts[i]
        seeded ==
            IF day \notin DOMAIN st.best_capital
            THEN [best_capital |->
                      DictSet(st.best_capital, day,
                              IF i > 1 THEN st.best_capital[dts[i - 1]]
                              ELSE STARTING_CAPITAL),
                  prev |-> DictSet(st.prev, day,
                                   IF i > 1 THEN <<dts[i - 1], NoTrade>>
                                   ELSE <<day, NoTrade>>)]
            ELSE st
        cap == seeded.best_capital[day]
        taken == TakeTrades(seeded, TradesByBuy(ts, day), cap, day, 1)
    IN  IF i + 1 <= Len(dts)
        THEN LET next_day == dts[i + 1]
             IN  [best_capital |-> DictSet(taken.best_capital, next_day, cap),
                  prev |-> DictSet(taken.prev, next_day, <<day, NoTrade>>)]
        ELSE taken

\* OptimizeBody without the "carry forward cash" block: the next date is
\* written only by a trade that sells on it.
OptimizeBody_NoCarryForward(st, ts, dts, i) ==
    LET day == dts[i]
        seeded ==
            IF day \notin DOMAIN st.best_capital
            THEN [best_capital |->
                      DictSet(st.best_capital, day,
                              IF i > 1 THEN st.best_capital[dts[i - 1]]
                              ELSE STARTING_CAPITAL),
                  prev |-> DictSet(st.prev, day,
                                   IF i > 1 THEN <<dts[i - 1], NoTrade>>
                                   ELSE <<day, NoTrade>>)]
            ELSE st
        cap == seeded.best_capital[day]
    IN  TakeTrades(seeded, TradesByBuy(ts, day), cap, day, 1)

\* One iteration of the loop over the dates, for index i (1-based).
OptimizeBody(st, ts, dts, i) ==
    LET day == dts[i]
        seeded ==
            IF day \notin DOMAIN st.best_capital
            THEN [best_capital |->
                      DictSet(st.best_capital, day,
                              IF i > 1 THEN st.best_capital[dts[i - 1]]
                              ELSE STARTING_CAPITAL),
                  prev |-> DictSet(st.prev, day,
                                   IF i > 1 THEN <<dts[i - 1], NoTrade>>
                                   ELSE <<day, NoTrade>>)]
            ELSE st
        cap == seeded.best_capital[day]
        taken == TakeTrades(seeded, TradesByBuy(ts, day), cap, day, 1)
    IN  IF i + 1 <= Len(dts)
        THEN LET next_day == dts[i + 1]
             IN  IF next_day \notin DOMAIN taken.best_capital
                    \/ Gt(cap, taken.best_capital[next_day])
                 THEN [best_capital |-> DictSet(taken.best_capital, next_day, cap),
                       prev |-> DictSet(taken.prev, next_day, <<day, NoTrade>>)]
                 ELSE taken
        ELSE taken

\* prev.get(current, (dates[0], None))
PrevGet(pv, cur, dts) == IF cur \in DOMAIN pv THEN pv[cur] ELSE <<dts[1], NoTrade>>

\* ReconstructBody that takes capital_start from the date the trade sells on
\* (best_capital[current]) instead of the date it buys on.
ReconstructBody_StartsAtSellDate(r, st, dts) ==
    LET p == PrevGet(st.prev, r.current, dts)
        prev_day == p[1]
        trade == p[2]
    IN  IF trade = NoTrade
        THEN [current |-> prev_day, path_trades |-> r.path_trades]
        ELSE LET capital_start == st.best_capital[r.current]
                 units == Div(capital_start, trade.buy_price)
                 capital_end == Mul(units, trade.sell_price)
             IN  [current |-> prev_day,
                  path_trades |-> Append(r.path_trades,
                                         TradeLogEntry(trade, capital_start,
                                                       capital_end, units))]

\* One iteration of the reconstruction loop, on (current, path_trades).
ReconstructBody(r, st, dts) ==
    LET p == PrevGet(st.prev, r.current, dts)
        prev_day == p[1]
        trade == p[2]
    IN  IF trade = NoTrade
        THEN [current |-> prev_day, path_trades |-> r.path_trades]
        ELSE LET capital_start == st.best_capital[prev_day]
                 units == Div(capital_start, trade.buy_price)
                 capital_end == Mul(units, trade.sell_price)
             IN  [current |-> prev_day,
                  path_trades |-> Append(r.path_trades,
                                         TradeLogEntry(trade, capital_start,
                                                       capital_end, units))]

\* The log handed back as it was collected, last trade first (the call of
\* reverse() left out).
Reverse_LeftOut(s) == s

\* path_trades.reverse()
Reverse(s) == [i \in 1..Len(s) |-> s[Len(s) + 1 - i]]

RECURSIVE OptimizeRun(_, _, _, _)
OptimizeRun(st, ts, dts, i) ==
    IF i > Len(dts) THEN st ELSE OptimizeRun(OptimizeBody(st, ts, dts, i), ts, dts, i + 1)

\* The reconstruction loop run to its end; fuel bounds the recursion of the
\* model (every iteration moves to an earlier date).
RECURSIVE ReconstructRun(_, _, _, _)
ReconstructRun(r, st, dts, fuel) ==
    IF r.current = dts[1] \/ fuel = 0 THEN r
    ELSE ReconstructRun(ReconstructBody(r, st, dts), st, dts, fuel - 1)

\* optimize_trades as a function: the returned log.
optimize_trades(ts, dts) ==
    LET st == OptimizeRun(OptimizeStart(dts), ts, dts, 1)
        r == ReconstructRun([current |-> dts[Len(dts)], path_trades |-> <<>>],
                            st, dts, Len(dts))
    IN  Reverse(r.path_trades)

EndingCapital(lg) == IF lg = <<>> THEN STARTING_CAPITAL ELSE lg[Len(lg)].capital_end

\* ------------------------------------------ the divisions the code executes
\* The divisors of "factor = sell_price / buy_price" over the assets, for one
\* (day, next_day) of compute_best_daily_choices: the division is reached when
\* both days are priced and buy_price <= 0 does not hold.
BestChoiceDivisors(day, next_day, prc) ==
    {prc[a][day] : a \in {b \in Assets : /\ day \in DOMAIN prc[b]
                                         /\ next_day \in DOMAIN prc[b]
                                         /\ ~Le(prc[b][day], Zero)}}

\* The divisors of "gain_pct = (sell_price - buy_price) / buy_price" in
\* build_opportunities: reached when both days are priced and neither
\* buy_price <= 0 nor sell_price <= buy_price holds.
BuildOppsDivisors(dts, prc) ==
    {prc[q[1]][dts[q[2]]] :
        q \in {r \in Assets \X (1..(Len(dts) - 1)) :
                  /\ dts[r[2]] \in DOMAIN prc[r[1]]
                  /\ dts[r[2] + 1] \in DOMAIN prc[r[1]]
                  /\ ~(\/ Le(prc[r[1]][dts[r[2]]], Zero)
                       \/ Le(prc[r[1]][dts[r[2] + 1]], prc[r[1]][dts[r[2]]]))}}

\* The divisors of the divisions of one allocator call: capital / buy_price
\* of the best opportunity (all_in); capital / len(opportunities) and
\* allocation / buy_price for each opportunity (equal_split); none (greedy).
AllocateDivisors(name, opps, cap) ==
    IF opps = <<>> THEN {}
    ELSE CASE name = "all_in" -> {MaxByGainPct(opps, 2, opps[1]).buy_price}
           [] name = "equal_split" ->
                  {Float(Len(opps))} \cup {opps[i].buy_price : i \in 1..Len(opps)}
           [] name = "greedy_one_unit" -> {}

\* Trade.gain_pct of phrecia_strategy.py, and the divisor of its division.
TradeGainPct(t) ==
    IF Le(t.capital_start, Zero) THEN Zero
    ELSE Div(Sub(t.capital_end, t.capital_start), t.capital_start)
TradeGainPctDivisors(t) == IF Le(t.capital_start, Zero) THEN {} ELSE {t.capital_start}

\* The divisors of "units = capital / trade.buy_price" for the trades that
\* start on day, in the loop of optimize_trades.
OptimizeDivisors(ts, day) ==
    {TradesByBuy(ts, day)[k].buy_price : k \in 1..Len(TradesByBuy(ts, day))}

\* The divisor of "units = capital_start / trade.buy_price" in one iteration of
\* the reconstruction loop.
ReconstructDivisors(r, st, dts) ==
    LET trade == PrevGet(st.prev, r.current, dts)[2]
    IN  IF trade = NoTrade THEN {} ELSE {trade.buy_price}

\* Trade.gain_pct of phrecia_profit_timeline_gantt.py, and its divisor.
TimelineGainPct(t) ==
    IF Le(t.buy_price, Zero) THEN Zero
    ELSE Div(Sub(t.sell_price, t.buy_price), t.buy_price)
TimelineGainPctDivisors(t) == IF Le(t.buy_price, Zero) THEN {} ELSE {t.buy_price}

\* ------------------------------------- phrecia_time_series_analysis.py
DailyValue(day, value) == [day |-> day, value |-> value]

\* float("-inf"): below every value under Lt and Gt.
NegInf == <<-1, 0>>

\* best_trade returning None.
NoResult == [none |-> TRUE]

\* The locals of best_trade before its loop (len(values) >= 2).
BestTradeStart(vs) ==
    [min_day |-> vs[1].day, min_value |-> vs[1].value, best_gain |-> NegInf,
     best_buy_day |-> vs[1].day, best_buy_value |-> vs[1].value,
     best_sell_day |-> vs[1].day, best_sell_value |-> vs[1].value]

\* BestTradeBody without the update of the running minimum: every gain is
\* measured against the first value.
BestTradeBody_MinNotUpdated(b, item) ==
    LET gain == Sub(item.value, b.min_value)
    IN  IF Gt(gain, b.best_gain)
        THEN [b EXCEPT !.best_gain = gain,
                       !.best_buy_day = b.min_day,
                       !.best_buy_value = b.min_value,
                       !.best_sell_day = item.day,
                       !.best_sell_value = item.value]
        ELSE b

\* BestTradeBody with the two comparisons made non-strict (>= and <=): a later
\* day with an equal gain, or an equal minimum, replaces the earlier one.
BestTradeBody_LaterTieWins(b, item) ==
    LET gain == Sub(item.value, b.min_value)
        g == IF Ge(gain, b.best_gain)
             THEN [b EXCEPT !.best_gain = gain,
                            !.best_buy_day = b.min_day,
                            !.best_buy_value = b.min_value,
                            !.best_sell_day = item.day,
                            !.best_sell_value = item.value]
             ELSE b
    IN  IF Le(item.value, g.min_value)
        THEN [g EXCEPT !.min_value = item.value, !.min_day = item.day]
        ELSE g

\* One iteration of "for item in values[1:]".
BestTradeBody(b, item) ==
    LET gain == Sub(item.value, b.min_value)
        g == IF Gt(gain, b.best_gain)
             THEN [b EXCEPT !.best_gain = gain,
                            !.best_buy_day = b.min_day,
                            !.best_buy_value = b.min_value,
                            !.best_sell_day = item.day,
                            !.best_sell_value = item.value]
             ELSE b
    IN  IF Lt(item.value, g.min_value)
        THEN [g EXCEPT !.min_value = item.value, !.min_day = item.day]
        ELSE g

\* BestTradeResult that returns None when the best gain found is not positive.
BestTradeResult_NoneWithoutGain(b) ==
    IF Le(b.best_gain, Zero) THEN NoResult
    ELSE [buy_day |-> b.best_buy_day, buy_value |-> b.best_buy_value,
          sell_day |-> b.best_sell_day, sell_value |-> b.best_sell_value,
          gain |-> b.best_gain,
          gain_pct |-> IF Gt(b.best_buy_value, Zero)
                       THEN Div(b.best_gain, b.best_buy_value)
                       ELSE NoFloat]

\* The tuple best_trade returns after its loop.
BestTradeResult(b) ==
    [buy_day |-> b.best_buy_day, buy_value |-> b.best_buy_value,
     sell_day |-> b.best_sell_day, sell_value |-> b.best_sell_value,
     gain |-> b.best_gain,
     gain_pct |-> IF Gt(b.best_buy_value, Zero)
                  THEN Div(b.best_gain, b.best_buy_value)
                  ELSE NoFloat]

RECURSIVE BestTradeRun(_, _, _)
BestTradeRun(b, vs, i) ==
    IF i > Len(vs) THEN b ELSE BestTradeRun(BestTradeBody(b, vs[i]), vs, i + 1)

\* best_trade as a function.
best_trade(vs) ==
    IF Len(vs) < 2 THEN NoResult
    ELSE BestTradeResult(BestTradeRun(BestTradeStart(vs), vs, 2))


\* A tuple iter_profitable_trades yields.
ProfitableTrade(buy_day, buy_value, sell_day, sell_value, gain, gain_pct) ==
    [buy_day |-> buy_day, buy_value |-> buy_value, sell_day |-> sell_day,
     sell_value |-> sell_value, gain |-> gain, gain_pct |-> gain_pct]

\* ProfitableBody that drops a pair only when its gain is below min_gain
\* (< for <=), so that a pair whose gain equals min_gain is yielded.
ProfitableBody_KeepsEqualGain(out, buy, sell, min_gain, min_gain_pct) ==
    LET gain == Sub(sell.value, buy.value)
    IN  IF Lt(gain, min_gain) THEN out
        ELSE IF Gt(buy.value, Zero)
        THEN LET gain_pct == Div(gain, buy.value)
             IN  IF min_gain_pct # NoFloat /\ Lt(gain_pct, min_gain_pct)
                 THEN out
                 ELSE Append(out, ProfitableTrade(buy.day, buy.value, sell.day,
                                                  sell.value, gain, gain_pct))
        ELSE IF min_gain_pct # NoFloat
        THEN out
        ELSE Append(out, ProfitableTrade(buy.day, buy.value, sell.day, sell.value,
                                         gain, NoFloat))

\* Body of the inner loop of iter_profitable_trades for one (buy, sell): out
\* is the sequence of the tuples yielded so far.
ProfitableBody(out, buy, sell, min_gain, min_gain_pct) ==
    LET gain == Sub(sell.value, buy.value)
    IN  IF Le(gain, min_gain) THEN out
        ELSE IF Gt(buy.value, Zero)
        THEN LET gain_pct == Div(gain, buy.value)
             IN  IF min_gain_pct # NoFloat /\ Lt(gain_pct, min_gain_pct)
                 THEN out
                 ELSE Append(out, ProfitableTrade(buy.day, buy.value, sell.day,
                                                  sell.value, gain, gain_pct))
        ELSE IF min_gain_pct # NoFloat
        THEN out
        ELSE Append(out, ProfitableTrade(buy.day, buy.value, sell.day, sell.value,
                                         gain, NoFloat))

\* for sell in values[idx + 1:], from index j on.
RECURSIVE ProfitableSells(_, _, _, _, _, _)
ProfitableSells(out, vs, i, j, min_gain, min_gain_pct) ==
    IF j > Len(vs) THEN out
    ELSE ProfitableSells(ProfitableBody(out, vs[i], vs[j], min_gain, min_gain_pct),
                         vs, i, j + 1, min_gain, min_gain_pct)

\* for idx, buy in enumerate(values[:-1]), from index i on.
RECURSIVE ProfitableBuys(_, _, _, _, _)
ProfitableBuys(out, vs, i, min_gain, min_gain_pct) ==
    IF i > Len(vs) - 1 THEN out
    ELSE ProfitableBuys(ProfitableSells(out, vs, i, i + 1, min_gain, min_gain_pct),
                        vs, i + 1, min_gain, min_gain_pct)

\* list(iter_profitable_trades(values, min_gain=..., min_gain_pct=...)).
iter_profitable_trades(vs, min_gain, min_gain_pct) ==
    IF Len(vs) < 2 THEN <<>> ELSE ProfitableBuys(<<>>, vs, 1, min_gain, min_gain_pct)

\* ----------------------------------------------------------- the scripts
Unset == <<>>

inputVars == <<dates, prices, starting_capital>>
strategyVars == <<strategy_name, capital, summaries, best_daily, opportunities,
                  ending_capital>>
allocVars == <<daily_opps, alloc>>
optimizeVars == <<best_capital, prev, current, path_trades, log>>
bestTradeVars == <<values, bt, pt>>
loadVars == <<loader, rows, sums, counts, meta>>
fileVars == <<script, present, created, error, bucket>>

\* The variables of a script that is not the one running stay unset.
IdleStrategy ==
    /\ strategy_name = Unset /\ capital = Unset /\ summaries = Unset
    /\ best_daily = Unset /\ opportunities = Unset /\ ending_capital = Unset
    /\ position = Unset
IdleAlloc == daily_opps = Unset /\ alloc = Unset
IdleOptimize ==
    /\ best_capital = Unset /\ prev = Unset /\ current = Unset
    /\ path_trades = Unset /\ log = Unset
IdleBestTrade == values = Unset /\ bt = Unset /\ pt = Unset
IdleLoad ==
    /\ loader = Unset /\ rows = Unset /\ sums = Unset /\ counts = Unset
    /\ meta = Unset
\* The meta map the loaders hand to main: an AssetMeta for every asset of the
\* price map, built from the asset's kind as AssetMeta(ld, key) builds it.
AssetTypes == {"currency", "item"}
MetaOf(types) ==
    [a \in Assets |->
        [asset_id |-> a, asset_type |-> types[a],
         fields |-> IF types[a] = "currency"
                    THEN [League |-> "Phrecia", Get |-> a, Pay |-> "Chaos Orb", Name |-> a]
                    ELSE [League |-> "Phrecia", Id |-> a, Type |-> "UniqueArmour",
                          Name |-> a, Variant |-> "", Links |-> ""]]]
MetaMaps == {MetaOf(types) : types \in [Assets -> AssetTypes]}
LoadedMeta == MetaOf([a \in Assets |-> IF a = AssetOrder[1] THEN "currency" ELSE "item"])
\* main after its loaders returned: their locals are gone, meta_map is set.
LoadersDone ==
    /\ loader = Unset /\ rows = Unset /\ sums = Unset /\ counts = Unset
IdleFiles ==
    /\ script = Unset /\ present = Unset /\ created = Unset /\ error = Unset
    /\ bucket = Unset

InitStrategy ==
    /\ pc = "main"
    /\ starting_capital = ShippedCapital
    /\ dates \in {DateList(n) : n \in 1..MaxDates}
    /\ prices \in [Assets -> SeriesOver({dates[i] : i \in 1..Len(dates)})]
    /\ idx = 0
    /\ trades = <<>>
    /\ IdleStrategy /\ IdleAlloc /\ IdleOptimize /\ IdleBestTrade
    /\ LoadersDone /\ meta = LoadedMeta /\ IdleFiles

\* main: the finders run once over the loaded price map.
Main ==
    /\ pc = "main"
    /\ best_daily' = compute_best_daily_choices(dates, prices, meta)
    /\ opportunities' = build_opportunities(dates, prices)
    /\ pc' = "strategies"
    /\ UNCHANGED <<inputVars, strategy_name, capital, summaries, ending_capital,
                   idx, trades, allocVars, optimizeVars, bestTradeVars,
                   loadVars, fileVars, position>>

\* main calls simulate_daily_strategy for a strategy; its locals are set up.
SimulateCall(name) ==
    /\ pc = "strategies"
    /\ strategy_name' = name
    /\ idx' = SimulateStart.idx
    /\ capital' = SimulateStart.capital
    /\ trades' = SimulateStart.trades
    /\ summaries' = SimulateStart.summaries
    /\ pc' = "simulate"
    /\ UNCHANGED <<inputVars, best_daily, opportunities, ending_capital,
                   allocVars, optimizeVars, bestTradeVars,
                   loadVars, fileVars, position>>

\* One day of the loop of simulate_daily_strategy.
SimulateDay ==
    /\ pc = "simulate"
    /\ idx <= Len(dates) - 1
    /\ LET s == SimulateBody([idx |-> idx, capital |-> capital, trades |-> trades,
                              summaries |-> summaries],
                             dates, opportunities, strategy_name)
       IN  /\ idx' = s.idx
           /\ capital' = s.capital
           /\ trades' = s.trades
           /\ summaries' = s.summaries
    /\ UNCHANGED <<pc, inputVars, strategy_name, best_daily, opportunities,
                   ending_capital, allocVars, optimizeVars, bestTradeVars,
                   loadVars, fileVars, position>>

\* return summaries, trades, capital
SimulateReturn ==
    /\ pc = "simulate"
    /\ idx > Len(dates) - 1
    /\ ending_capital' = capital
    /\ pc' = "returned"
    /\ UNCHANGED <<inputVars, strategy_name, capital, summaries, best_daily,
                   opportunities, idx, trades, allocVars, optimizeVars,
                   bestTradeVars,
                   loadVars, fileVars, position>>

Next ==
    \/ Main
    \/ \E name \in StrategyNames : SimulateCall(name)
    \/ SimulateDay
    \/ SimulateReturn

Spec == InitStrategy /\ [][Next]_vars

\* ------------------------------------------------- run_bucket (timeline)
InitOptimize ==
    /\ pc = "run_bucket"
    /\ starting_capital = ShippedCapital
    /\ dates \in {DateList(n) : n \in 1..MaxDates}
    /\ prices \in [Assets -> SeriesOver(Days)]
    /\ idx = 0
    /\ trades = <<>>
    /\ IdleStrategy /\ IdleAlloc /\ IdleOptimize /\ IdleBestTrade
    /\ IdleLoad /\ IdleFiles

\* run_bucket builds the candidate trades and enters optimize_trades.
OptimizeCall ==
    /\ pc = "run_bucket"
    /\ trades' = build_trades(prices)
    /\ best_capital' = OptimizeStart(dates).best_capital
    /\ prev' = OptimizeStart(dates).prev
    /\ idx' = 1
    /\ pc' = "optimize"
    /\ UNCHANGED <<inputVars, strategyVars, allocVars, current, path_trades, log,
                   bestTradeVars,
                   loadVars, fileVars, position>>

\* One date of the loop of optimize_trades.
OptimizeDay ==
    /\ pc = "optimize"
    /\ idx <= Len(dates)
    /\ LET st == OptimizeBody([best_capital |-> best_capital, prev |-> prev],
                              trades, dates, idx)
       IN  /\ best_capital' = st.best_capital
           /\ prev' = st.prev
    /\ idx' = idx + 1
    /\ UNCHANGED <<pc, inputVars, trades, strategyVars, allocVars, current,
                   path_trades, log, bestTradeVars,
                   loadVars, fileVars, position>>

\* The loop is over: current = dates[-1], path_trades = [].
ReconstructBegin ==
    /\ pc = "optimize"
    /\ idx > Len(dates)
    /\ current' = dates[Len(dates)]
    /\ path_trades' = <<>>
    /\ pc' = "reconstruct"
    /\ UNCHANGED <<inputVars, idx, trades, strategyVars, allocVars, best_capital,
                   prev, log, bestTradeVars,
                   loadVars, fileVars, position>>

\* One iteration of "while current != dates[0]".
ReconstructStep ==
    /\ pc = "reconstruct"
    /\ current # dates[1]
    /\ LET r == ReconstructBody([current |-> current, path_trades |-> path_trades],
                                [best_capital |-> best_capital, prev |-> prev], dates)
       IN  /\ current' = r.current
           /\ path_trades' = r.path_trades
    /\ UNCHANGED <<pc, inputVars, idx, trades, strategyVars, allocVars,
                   best_capital, prev, log, bestTradeVars,
                   loadVars, fileVars, position>>

\* path_trades.reverse(); return path_trades
OptimizeReturn ==
    /\ pc = "reconstruct"
    /\ current = dates[1]
    /\ log' = Reverse(path_trades)
    /\ pc' = "optimized"
    /\ UNCHANGED <<inputVars, idx, trades, strategyVars, allocVars, best_capital,
                   prev, current, path_trades, bestTradeVars,
                   loadVars, fileVars, position>>

NextOptimize ==
    \/ OptimizeCall
    \/ OptimizeDay
    \/ ReconstructBegin
    \/ ReconstructStep
    \/ OptimizeReturn

SpecOptimize == InitOptimize /\ [][NextOptimize]_vars

\* run_bucket on series of two price levels, every subset of the days priced;
\* it is one thread of control, so a step that can be taken is taken.
TwoLevelPrices == {Float(1), Float(2)}
InitOptimizeTwoLevels ==
    /\ pc = "run_bucket"
    /\ starting_capital = ShippedCapital
    /\ dates \in {DateList(n) : n \in 1..MaxDates}
    /\ prices \in [Assets -> UNION {[S -> TwoLevelPrices] : S \in SUBSET Days}]
    /\ idx = 0
    /\ trades = <<>>
    /\ IdleStrategy /\ IdleAlloc /\ IdleOptimize /\ IdleBestTrade
    /\ IdleLoad /\ IdleFiles
SpecOptimizeFair == InitOptimizeTwoLevels /\ [][NextOptimize]_vars /\ WF_vars(NextOptimize)

\* ------------------------------------------- an allocator called alone
\* Opportunities as build_opportunities makes them: 0 < buy_price < sell_price,
\* one per asset, gain_pct derived from the prices.
AllocAssetIds == <<"a", "b", "c", "d", "e">>
AllocPrices == {3, 5, 8, 9}
AllocCapitals == {Float(1), <<7, 2>>, Float(10), ShippedCapital}
PricePairs == {q \in AllocPrices \X AllocPrices : q[1] < q[2]}
OppAt(i, q) ==
    Opportunity(AllocAssetIds[i], 1, 2, Float(q[1]), Float(q[2]),
                Div(Sub(Float(q[2]), Float(q[1])), Float(q[1])))
OppLists ==
    UNION {{[i \in 1..n |-> OppAt(i, f[i])] : f \in [1..n -> PricePairs]} : n \in 0..MaxOpps}

InitAlloc ==
    /\ pc = "allocate"
    /\ starting_capital = ShippedCapital
    /\ daily_opps \in OppLists
    /\ alloc \in {[capital |-> c, strategy_name |-> None, trades |-> <<>>,
                    cash_left |-> NoFloat] : c \in AllocCapitals}
    /\ dates = Unset /\ prices = Unset /\ idx = 0 /\ trades = <<>>
    /\ IdleStrategy /\ IdleOptimize /\ IdleBestTrade
    /\ IdleLoad /\ IdleFiles

\* allocate_greedy_one_unit sorting the list it was given in place
\* (opportunities.sort(...) for sorted(opportunities, ...)).
OppsAfterCall_SortsInPlace(name, opps) ==
    IF name = "greedy_one_unit" THEN SortedDesc(opps) ELSE opps

\* The caller's list after allocate_<name>(opps, capital) returned: max(), the
\* for loop and sorted() only read it, so it is the list that was passed.
OppsAfterCall(name, opps) == opps

\* One call allocate_<name>(daily_opps, capital).
AllocatorCall(name) ==
    /\ pc = "allocate"
    /\ LET r == Allocate(name, daily_opps, alloc.capital)
       IN  alloc' = [alloc EXCEPT !.strategy_name = name, !.trades = r.trades,
                                  !.cash_left = r.cash_left]
    /\ daily_opps' = OppsAfterCall(name, daily_opps)
    /\ pc' = "allocated"
    /\ UNCHANGED <<inputVars, idx, trades, strategyVars, optimizeVars,
                   bestTradeVars,
                   loadVars, fileVars, position>>

NextAlloc == \E name \in StrategyNames : AllocatorCall(name)

SpecAlloc == InitAlloc /\ [][NextAlloc]_vars

\* -------------------------------------------------- best_trade on a series
SeriesValues == {0, 8, 10, 15, 20}
\* build_daily_values: one DailyValue per priced day, sorted by day.
ValueLists ==
    UNION {{[i \in 1..n |-> DailyValue(i, Float(f[i]))] : f \in [1..n -> SeriesValues]}
           : n \in 0..MaxLen}

InitBestTrade ==
    /\ pc = "best_trade"
    /\ starting_capital = Unset
    /\ values \in ValueLists
    /\ bt = Unset
    /\ pt = Unset
    /\ dates = Unset /\ prices = Unset /\ idx = 0 /\ trades = <<>>
    /\ IdleStrategy /\ IdleAlloc /\ IdleOptimize
    /\ IdleLoad /\ IdleFiles

\* if len(values) < 2: return None
BestTradeNone ==
    /\ pc = "best_trade"
    /\ Len(values) < 2
    /\ bt' = NoResult
    /\ pc' = "best_trade_returned"
    /\ UNCHANGED <<inputVars, idx, trades, strategyVars, allocVars, optimizeVars,
                   values, pt,
                   loadVars, fileVars, position>>

\* The locals are set up for the scan.
BestTradeEnter ==
    /\ pc = "best_trade"
    /\ Len(values) >= 2
    /\ bt' = BestTradeStart(values)
    /\ idx' = 2
    /\ pc' = "best_trade_scan"
    /\ UNCHANGED <<inputVars, trades, strategyVars, allocVars, optimizeVars, values,
                   pt,
                   loadVars, fileVars, position>>

\* One item of values[1:].
BestTradeScan ==
    /\ pc = "best_trade_scan"
    /\ idx <= Len(values)
    /\ bt' = BestTradeBody(bt, values[idx])
    /\ idx' = idx + 1
    /\ UNCHANGED <<pc, inputVars, trades, strategyVars, allocVars, optimizeVars,
                   values, pt,
                   loadVars, fileVars, position>>

\* gain_pct is computed and the tuple returned.
BestTradeReturn ==
    /\ pc = "best_trade_scan"
    /\ idx > Len(values)
    /\ bt' = BestTradeResult(bt)
    /\ pc' = "best_trade_returned"
    /\ UNCHANGED <<inputVars, idx, trades, strategyVars, allocVars, optimizeVars,
                   values, pt,
                   loadVars, fileVars, position>>

NextBestTrade ==
    \/ BestTradeNone
    \/ BestTradeEnter
    \/ BestTradeScan
    \/ BestTradeReturn

SpecBestTrade == InitBestTrade /\ [][NextBestTrade]_vars

\* ---------------------------------- iter_profitable_trades on a series
\* Values of a series: the loader keeps whatever the rows hold, so a value
\* may be zero or negative.
ProfitableValues == {-2, 0, 1, 2, 4}
ProfitableLists ==
    UNION {{[i \in 1..n |-> DailyValue(i, Float(f[i]))] : f \in [1..n -> ProfitableValues]}
           : n \in 0..MaxLen}
\* --min-gain (default 0.0) and --min-gain-pct (default None).
MinGains == {Float(0), Float(1)}
MinGainPcts == {NoFloat, Float(-3), Float(2)}

InitProfitable ==
    /\ pc = "iter_profitable_trades"
    /\ starting_capital = Unset
    /\ values \in ProfitableLists
    /\ pt \in {[min_gain |-> g, min_gain_pct |-> q, sell |-> 0, yielded |-> <<>>]
                : g \in MinGains, q \in MinGainPcts}
    /\ bt = Unset
    /\ dates = Unset /\ prices = Unset /\ idx = 0 /\ trades = <<>>
    /\ IdleStrategy /\ IdleAlloc /\ IdleOptimize
    /\ IdleLoad /\ IdleFiles

\* if len(values) < 2: the iterator ends without a tuple.
ProfitableNone ==
    /\ pc = "iter_profitable_trades"
    /\ Len(values) < 2
    /\ pc' = "profitable_returned"
    /\ UNCHANGED <<inputVars, idx, trades, strategyVars, allocVars, optimizeVars,
                   bestTradeVars,
                   loadVars, fileVars, position>>

\* The loops start at the first buy and the sell right after it.
ProfitableEnter ==
    /\ pc = "iter_profitable_trades"
    /\ Len(values) >= 2
    /\ idx' = 1
    /\ pt' = [pt EXCEPT !.sell = 2]
    /\ pc' = "profitable_scan"
    /\ UNCHANGED <<inputVars, trades, strategyVars, allocVars, optimizeVars, values,
                   bt,
                   loadVars, fileVars, position>>

\* One (buy, sell) of the nested loops, and the step to the next pair.
ProfitablePair ==
    /\ pc = "profitable_scan"
    /\ idx <= Len(values) - 1
    /\ pt' = [pt EXCEPT !.yielded = ProfitableBody(pt.yielded, values[idx],
                                                  values[pt.sell], pt.min_gain,
                                                  pt.min_gain_pct),
                        !.sell = IF pt.sell < Len(values) THEN pt.sell + 1 ELSE idx + 2]
    /\ idx' = IF pt.sell < Len(values) THEN idx ELSE idx + 1
    /\ UNCHANGED <<pc, inputVars, trades, strategyVars, allocVars, optimizeVars,
                   values, bt,
                   loadVars, fileVars, position>>

\* The outer loop is over: the iterator is exhausted.
ProfitableReturn ==
    /\ pc = "profitable_scan"
    /\ idx > Len(values) - 1
    /\ pc' = "profitable_returned"
    /\ UNCHANGED <<inputVars, idx, trades, strategyVars, allocVars, optimizeVars,
                   bestTradeVars,
                   loadVars, fileVars, position>>

NextProfitable ==
    \/ ProfitableNone
    \/ ProfitableEnter
    \/ ProfitablePair
    \/ ProfitableReturn

SpecProfitable == InitProfitable /\ [][NextProfitable]_vars

\* ------------------------------------------------ a loader on a file
\* Rows of Phrecia.currency.filtered.csv and Phrecia.items.filtered.csv.
RowValues == {Float(1), Float(3)}
RowDates == {1, 2}
CurrencyRows ==
    [League : {"Phrecia", "Standard"}, Get : {"Divine Orb", "Exalted Orb"},
     Pay : {"Chaos Orb", "Divine Orb"}, Date : RowDates, Value : RowValues]
ItemRows ==
    [League : {"Phrecia"}, Id : {"7"}, Type : {"UniqueArmour", "BaseType"},
     Name : {"Tabula Rasa", "Simple Robe"}, Variant : {""}, Links : {""},
     Date : RowDates, Value : RowValues]
RowLists(R) == UNION {[1..n -> R] : n \in 0..MaxRows}

InitLoad ==
    /\ pc = "load"
    /\ starting_capital = ShippedCapital
    /\ \/ loader = "currency" /\ rows \in RowLists(CurrencyRows)
       \/ loader = "item" /\ rows \in RowLists(ItemRows)
    /\ sums = <<>> /\ counts = <<>> /\ meta = <<>>
    /\ dates = Unset /\ prices = <<>> /\ idx = 1 /\ trades = <<>>
    /\ IdleStrategy /\ IdleAlloc /\ IdleOptimize /\ IdleBestTrade
    /\ IdleFiles

\* One row of "for row in reader".
LoadRow ==
    /\ pc = "load"
    /\ idx <= Len(rows)
    /\ LET st == LoadRowBody([sums |-> sums, counts |-> counts], loader, rows[idx])
       IN  sums' = st.sums /\ counts' = st.counts
    /\ idx' = idx + 1
    /\ UNCHANGED <<pc, inputVars, trades, strategyVars, allocVars, optimizeVars,
                   bestTradeVars, loader, rows, meta, fileVars, position>>

\* The file is read: the loop over sums.items() starts.
LoadAggregate ==
    /\ pc = "load"
    /\ idx > Len(rows)
    /\ idx' = 1
    /\ pc' = "aggregate"
    /\ UNCHANGED <<inputVars, trades, strategyVars, allocVars, optimizeVars,
                   bestTradeVars, loadVars, fileVars, position>>

\* One item of "for key, total in sums.items()".
LoadKey ==
    /\ pc = "aggregate"
    /\ idx <= Len(sums)
    /\ LET out == LoadKeyBody([prices |-> prices, meta |-> meta], loader, sums[idx],
                              counts)
       IN  prices' = out.prices /\ meta' = out.meta
    /\ idx' = idx + 1
    /\ UNCHANGED <<pc, dates, starting_capital, trades, strategyVars, allocVars, optimizeVars,
                   bestTradeVars, loader, rows, sums, counts, fileVars, position>>

\* return prices, meta
LoadReturn ==
    /\ pc = "aggregate"
    /\ idx > Len(sums)
    /\ pc' = "loaded"
    /\ UNCHANGED <<inputVars, idx, trades, strategyVars, allocVars, optimizeVars,
                   bestTradeVars, loadVars, fileVars, position>>

NextLoad ==
    \/ LoadRow
    \/ LoadAggregate
    \/ LoadKey
    \/ LoadReturn

SpecLoad == InitLoad /\ [][NextLoad]_vars

\* ------------------------------------------------ scripts side by side
\* An allocator on its own inputs, or the simulator driving the allocators.
SpecAllocSim == (InitAlloc \/ InitStrategy) /\ [][NextAlloc \/ Next]_vars

\* The strategy script or the timeline script.
SpecSimOptimize == (InitStrategy \/ InitOptimize) /\ [][Next \/ NextOptimize]_vars

\* The strategy script or the timeline script after STARTING_CAPITAL has been
\* given another value in the source: neither script checks the value.
CapitalSettings == {Float(-100), Zero}
InitConfigured ==
    /\ pc \in {"main", "run_bucket"}
    /\ starting_capital \in CapitalSettings
    /\ dates \in {DateList(n) : n \in 1..(MaxDates - 1)}
    /\ prices \in [Assets -> SeriesOver({dates[i] : i \in 1..Len(dates)})]
    /\ idx = 0
    /\ trades = <<>>
    /\ IdleStrategy /\ IdleAlloc /\ IdleOptimize /\ IdleBestTrade
    /\ LoadersDone /\ meta = (IF pc = "main" THEN LoadedMeta ELSE Unset) /\ IdleFiles
SpecConfigured == InitConfigured /\ [][Next \/ NextOptimize]_vars

\* The strategy script with STARTING_CAPITAL at its shipped value or at a
\* smaller positive value, small enough for allocate_greedy_one_unit to find
\* opportunities it cannot afford.
PositiveCapitals == {<<1, 2>>, Float(2), ShippedCapital}
InitPositiveCapital ==
    /\ pc = "main"
    /\ starting_capital \in PositiveCapitals
    /\ dates \in {DateList(n) : n \in 1..MaxDates}
    /\ prices \in [Assets -> SeriesOver({dates[i] : i \in 1..Len(dates)})]
    /\ idx = 0
    /\ trades = <<>>
    /\ IdleStrategy /\ IdleAlloc /\ IdleOptimize /\ IdleBestTrade
    /\ LoadersDone /\ meta = LoadedMeta /\ IdleFiles
SpecPositiveCapital == InitPositiveCapital /\ [][Next]_vars

\* The finders of the three scripts, each on its own inputs: main up to its
\* finder calls, run_bucket up to build_trades, best_trade and
\* iter_profitable_trades.
InitFinders == InitStrategy \/ InitOptimize \/ InitBestTrade \/ InitProfitable
NextFinders == Main \/ OptimizeCall \/ NextBestTrade \/ NextProfitable
SpecFinders == InitFinders /\ [][NextFinders]_vars

\* The strategy main over every meta map the loaders can hand to it.
InitMeta ==
    /\ pc = "main"
    /\ starting_capital = ShippedCapital
    /\ dates \in {DateList(n) : n \in 1..MaxDates}
    /\ prices \in [Assets -> SeriesOver({dates[i] : i \in 1..Len(dates)})]
    /\ meta \in MetaMaps
    /\ idx = 0
    /\ trades = <<>>
    /\ IdleStrategy /\ IdleAlloc /\ IdleOptimize /\ IdleBestTrade
    /\ LoadersDone /\ IdleFiles
SpecMeta == InitMeta /\ [][Next]_vars

\* ------------------------------------- the switching simulator (spec 4.3)
\* The single-asset variant of the day-by-day simulator as the specification
\* words it: the state is the capital in cash and the open position (asset,
\* buy_date, buy_price, units, capital_committed); the positions are kept as a
\* list so that "at most one" is something a run can break.
Position(asset_id, buy_date, buy_price, units, capital_committed) ==
    [asset_id |-> asset_id, buy_date |-> buy_date, buy_price |-> buy_price,
     units |-> units, capital_committed |-> capital_committed]

\* The asset currently held, or None.
HeldAsset(pos) == IF pos = <<>> THEN None ELSE pos[1].asset_id

\* "close the open position at the current day's price (realize a Trade)".
RECURSIVE ClosePositions(_, _, _)
ClosePositions(s, day, prc) ==
    IF s.position = <<>> THEN s
    ELSE LET p == s.position[1]
             sell_price == prc[p.asset_id][day]
             capital_end == Mul(p.units, sell_price)
         IN  ClosePositions(
                 [capital |-> Add(s.capital, capital_end),
                  position |-> SubSeq(s.position, 2, Len(s.position)),
                  trades |-> Append(s.trades,
                                    Trade(p.asset_id, p.buy_date, day, p.buy_price,
                                          sell_price, p.units, p.capital_committed,
                                          capital_end))],
                 day, prc)

\* "open a new position sized at 100% of current capital"
OpenPosition(s, day, choice) ==
    [capital |-> Zero,
     position |-> Append(s.position,
                         Position(choice.asset_id, day, choice.buy_price,
                                  Div(s.capital, choice.buy_price), s.capital)),
     trades |-> s.trades]

\* SwitchingBody that opens the new position without closing the one it
\* holds.
SwitchingBody_KeepsOldPosition(s, day, choice, prc) ==
    IF choice.asset_id = HeldAsset(s.position) THEN s
    ELSE IF choice.asset_id = None THEN ClosePositions(s, day, prc)
         ELSE OpenPosition(s, day, choice)

\* One decision day: the day's best-next-day choice against the held asset.
SwitchingBody(s, day, choice, prc) ==
    IF choice.asset_id = HeldAsset(s.position) THEN s
    ELSE LET closed == ClosePositions(s, day, prc)
         IN  IF choice.asset_id = None THEN closed
             ELSE OpenPosition(closed, day, choice)

\* The simulator is entered after main has the day's best choices.
SwitchingCall ==
    /\ pc = "strategies"
    /\ strategy_name' = "switching"
    /\ idx' = 1
    /\ capital' = STARTING_CAPITAL
    /\ trades' = <<>>
    /\ position' = <<>>
    /\ pc' = "switching"
    /\ UNCHANGED <<inputVars, summaries, best_daily, opportunities, ending_capital,
                   allocVars, optimizeVars, bestTradeVars, loadVars, fileVars>>

\* A decision day (every date but the final one).
SwitchingDay ==
    /\ pc = "switching"
    /\ idx <= Len(dates) - 1
    /\ LET s == SwitchingBody([capital |-> capital, position |-> position,
                               trades |-> trades],
                              dates[idx], best_daily[dates[idx]], prices)
       IN  /\ capital' = s.capital
           /\ position' = s.position
           /\ trades' = s.trades
    /\ idx' = idx + 1
    /\ UNCHANGED <<pc, inputVars, strategy_name, summaries, best_daily, opportunities,
                   ending_capital, allocVars, optimizeVars, bestTradeVars, loadVars,
                   fileVars>>

\* "At the final day, force-close any open position."
SwitchingFinalDay ==
    /\ pc = "switching"
    /\ idx > Len(dates) - 1
    /\ LET s == ClosePositions([capital |-> capital, position |-> position,
                                trades |-> trades],
                               dates[Len(dates)], prices)
       IN  /\ capital' = s.capital
           /\ position' = s.position
           /\ trades' = s.trades
           /\ ending_capital' = s.capital
    /\ pc' = "switched"
    /\ UNCHANGED <<inputVars, idx, strategy_name, summaries, best_daily, opportunities,
                   allocVars, optimizeVars, bestTradeVars, loadVars, fileVars>>

NextSwitching ==
    \/ Main
    \/ SwitchingCall
    \/ SwitchingDay
    \/ SwitchingFinalDay

SpecSwitching == InitStrategy /\ [][NextSwitching]_vars

\* ------------------------------------------------ the entry points main()
\* The three scripts, the two input files each of them reads, and the paths
\* each of them creates.  A path is named by the constant that holds it.
ScriptNames == {"phrecia_strategy", "phrecia_profit_timeline_gantt", "phrecia_time_series_analysis"}
InputFiles == {"CURRENCY_INPUT", "ITEMS_INPUT"}

OutputDirs(s) ==
    CASE s = "phrecia_strategy" ->
           {"STRATEGY_DIR", "ALL_IN_DIR", "EQUAL_SPLIT_DIR", "GREEDY_ONE_UNIT_DIR"}
      [] s = "phrecia_profit_timeline_gantt" -> {"OUTPUT_DIR"}
      [] s = "phrecia_time_series_analysis" ->
           {"FILTERED_DIR", "MOVING_AVG_DIR", "TRADES_DIR"}

\* main of the strategy script: the strategies dict, in its order.
StrategyOrder == <<"all_in", "equal_split", "greedy_one_unit">>
StrategyOutputs(name) == {name \o "/daily.csv", name \o "/trades.csv", name \o "/summary.csv"}

\* main of the timeline script: the buckets, in call order.
BucketOrder == <<"unique", "stable">>
LogPath(name) == name \o "_profit_timeline.csv"
ChartPaths(name) == {name \o "_profit_timeline.png", name \o "_profit_timeline.svg"}
BucketOutputs == UNION {{LogPath(BucketOrder[i])} \cup ChartPaths(BucketOrder[i]) : i \in 1..Len(BucketOrder)}

\* main of the time-series script: the writers after the two filters, in
\* call order.
SeriesWriters ==
    <<"CURRENCY_MA_OUTPUT", "ITEMS_MA_OUTPUT", "CURRENCY_TRADES_OUTPUT",
      "ITEMS_TRADES_OUTPUT", "CURRENCY_ALL_TRADES_OUTPUT", "ITEMS_ALL_TRADES_OUTPUT">>
FilteredPath(kind) == IF kind = "currency" THEN "CURRENCY_FILTERED" ELSE "ITEMS_FILTERED"
FilterInput(kind) == IF kind = "currency" THEN "CURRENCY_INPUT" ELSE "ITEMS_INPUT"

\* The first element of a sequence that a condition still leaves to do.
FirstNotIn(order, done) ==
    LET I == {i \in 1..Len(order) : order[i] \notin done}
    IN  IF I = {} THEN None ELSE order[CHOOSE i \in I : \A j \in I : i <= j]

\* What the loaders hand to main: the dates of the window and a price map.
ScriptDates == DateList(2)
ScriptPrices == [Assets -> SeriesOver({ScriptDates[i] : i \in 1..Len(ScriptDates)})]

InitScripts ==
    /\ pc = "entry"
    /\ script \in ScriptNames
    /\ present \in SUBSET InputFiles
    /\ created = {}
    /\ error = None
    /\ bucket = None
    /\ starting_capital = ShippedCapital
    /\ dates = Unset /\ prices = Unset /\ idx = 0 /\ trades = <<>>
    /\ IdleStrategy /\ IdleAlloc /\ IdleOptimize /\ IdleBestTrade
    /\ IdleLoad

\* if not CURRENCY_INPUT.exists() or not ITEMS_INPUT.exists(): raise
CheckInputs ==
    /\ pc = "entry"
    /\ script \in {"phrecia_strategy", "phrecia_profit_timeline_gantt"}
    /\ IF present # InputFiles
       THEN error' = "FileNotFoundError" /\ pc' = "aborted"
       ELSE error' = error /\ pc' = "mkdir"
    /\ UNCHANGED <<inputVars, idx, trades, strategyVars, allocVars, optimizeVars,
                   bestTradeVars, loadVars, script, present, created, bucket, position>>

\* The mkdir(parents=True, exist_ok=True) calls of main.  The time-series
\* main reaches them straight after parsing its arguments.
MakeDirs ==
    /\ \/ pc = "mkdir"
       \/ pc = "entry" /\ script = "phrecia_time_series_analysis"
    /\ created' = created \cup OutputDirs(script)
    /\ pc' = "load"
    /\ UNCHANGED <<inputVars, idx, trades, strategyVars, allocVars, optimizeVars,
                   bestTradeVars, loadVars, script, present, error, bucket, position>>

\* Strategy main: build_dates and the two loaders, merged into price_map.
StrategyLoad ==
    /\ pc = "load"
    /\ script = "phrecia_strategy"
    /\ dates' = ScriptDates
    /\ prices' \in ScriptPrices
    /\ meta' = LoadedMeta
    /\ pc' = "main"
    /\ UNCHANGED <<starting_capital, idx, trades, strategyVars, allocVars,
                   optimizeVars, bestTradeVars, loader, rows, sums, counts,
                   fileVars, position>>

\* write_best_daily_choices(best_daily, meta_map)
WriteBestDaily ==
    /\ pc = "strategies"
    /\ script = "phrecia_strategy"
    /\ "BEST_DAILY_OUTPUT" \notin created
    /\ created' = created \cup {"BEST_DAILY_OUTPUT"}
    /\ UNCHANGED <<pc, inputVars, idx, trades, strategyVars, allocVars, optimizeVars,
                   bestTradeVars, loadVars, script, present, error, bucket, position>>

\* "for strategy_name, outputs in strategies.items()": the call of
\* simulate_daily_strategy for the next strategy of the dict.
StrategyTurn(name) ==
    /\ script = "phrecia_strategy"
    /\ "BEST_DAILY_OUTPUT" \in created
    /\ LET done == {StrategyOrder[i] : i \in {j \in 1..Len(StrategyOrder) : StrategyOutputs(StrategyOrder[j]) \subseteq created}}
       IN  name = FirstNotIn(StrategyOrder, done)
    /\ SimulateCall(name)

\* write_daily_summary, write_trades, write_summary for the strategy.
WriteStrategyOutputs ==
    /\ pc = "returned"
    /\ script = "phrecia_strategy"
    /\ created' = created \cup StrategyOutputs(strategy_name)
    /\ pc' = IF strategy_name = StrategyOrder[Len(StrategyOrder)] THEN "done" ELSE "strategies"
    /\ UNCHANGED <<inputVars, idx, trades, strategyVars, allocVars, optimizeVars,
                   bestTradeVars, loadVars, script, present, error, bucket, position>>

\* Timeline main calls run_bucket: build_dates and the loaders give the
\* bucket's dates and series map.
RunBucket ==
    /\ pc = "load"
    /\ script = "phrecia_profit_timeline_gantt"
    /\ bucket' = IF bucket = None THEN BucketOrder[1] ELSE BucketOrder[2]
    /\ dates' = ScriptDates
    /\ prices' \in ScriptPrices
    /\ idx' = 0
    /\ trades' = <<>>
    /\ best_capital' = Unset /\ prev' = Unset /\ current' = Unset
    /\ path_trades' = Unset /\ log' = Unset
    /\ pc' = "run_bucket"
    /\ UNCHANGED <<starting_capital, strategyVars, allocVars, bestTradeVars,
                   loadVars, script, present, created, error, position>>

\* write_log(log_path, log): the file is opened for writing and the header
\* written, then one row per log entry.
WriteLog ==
    /\ pc = "optimized"
    /\ script = "phrecia_profit_timeline_gantt"
    /\ created' = created \cup {LogPath(bucket)}
    /\ pc' = "plot"
    /\ UNCHANGED <<inputVars, idx, trades, strategyVars, allocVars, optimizeVars,
                   bestTradeVars, loadVars, script, present, error, bucket, position>>

\* plot_gantt(chart_path, title, log): raises on an empty log, else saves
\* the .png and the .svg; run_bucket returns to main.
PlotGantt ==
    /\ pc = "plot"
    /\ IF log = <<>>
       THEN /\ error' = "ValueError"
            /\ pc' = "aborted"
            /\ created' = created
       ELSE /\ error' = error
            /\ created' = created \cup ChartPaths(bucket)
            /\ pc' = IF bucket = BucketOrder[Len(BucketOrder)] THEN "done" ELSE "load"
    /\ UNCHANGED <<inputVars, idx, trades, strategyVars, allocVars, optimizeVars,
                   bestTradeVars, loadVars, script, present, bucket, position>>

\* filter_and_aggregate_currency / filter_and_aggregate_items: the input is
\* opened first, then the filtered file is opened for writing.
FilterAndAggregate(kind) ==
    /\ pc = "load"
    /\ script = "phrecia_time_series_analysis"
    /\ kind = IF FilteredPath("currency") \in created THEN "items" ELSE "currency"
    /\ IF FilterInput(kind) \notin present
       THEN /\ error' = "FileNotFoundError"
            /\ pc' = "aborted"
            /\ created' = created
       ELSE /\ error' = error
            /\ created' = created \cup {FilteredPath(kind)}
            /\ pc' = IF kind = "items" THEN "write" ELSE "load"
    /\ UNCHANGED <<inputVars, idx, trades, strategyVars, allocVars, optimizeVars,
                   bestTradeVars, loadVars, script, present, bucket, position>>

\* The next of the six write_* calls of the time-series main.
WriteSeriesOutput ==
    /\ pc = "write"
    /\ script = "phrecia_time_series_analysis"
    /\ created' = created \cup {FirstNotIn(SeriesWriters, created)}
    /\ pc' = IF FirstNotIn(SeriesWriters, created) = SeriesWriters[Len(SeriesWriters)]
             THEN "done" ELSE "write"
    /\ UNCHANGED <<inputVars, idx, trades, strategyVars, allocVars, optimizeVars,
                   bestTradeVars, loadVars, script, present, error, bucket, position>>

NextScripts ==
    \/ CheckInputs
    \/ MakeDirs
    \/ StrategyLoad
    \/ Main
    \/ WriteBestDaily
    \/ \E name \in StrategyNames : StrategyTurn(name)
    \/ SimulateDay
    \/ SimulateReturn
    \/ WriteStrategyOutputs
    \/ RunBucket
    \/ NextOptimize
    \/ WriteLog
    \/ PlotGantt
    \/ \E kind \in {"currency", "items"} : FilterAndAggregate(kind)
    \/ WriteSeriesOutput

SpecScripts == InitScripts /\ [][NextScripts]_vars

\* ================================================================ claims
LastDate == dates[Len(dates)]
DateSet == {dates[i] : i \in 1..Len(dates)}

\* The products of sell_price/buy_price along the chains of trades of ts that
\* start on or after day from: buy dates in the date list, sell dates not
\* after the last date, each sell date on or before the next buy date.
RECURSIVE ChainFactors(_, _)
ChainFactors(ts, from) ==
    {Float(1)} \cup
    UNION {{Mul(Div(ts[k].sell_price, ts[k].buy_price), v) :
                v \in ChainFactors(ts, ts[k].sell_date)} :
           k \in {j \in 1..Len(ts) : /\ ts[j].buy_date \in DateSet
                                     /\ ts[j].buy_date >= from
                                     /\ ts[j].sell_date <= LastDate}}

MaxOf(S) == CHOOSE x \in S : \A y \in S : Le(y, x)

MaxChainCapital(ts) ==
    MaxOf({Mul(STARTING_CAPITAL, f) : f \in ChainFactors(ts, dates[1])})

\* C1: the ending capital of the log optimize_trades returns over the trades of
\* build_trades equals the greatest capital any chain of non-overlapping trades
\* inside the date list reaches from STARTING_CAPITAL (the empty chain included).
C1_OptimalEndingCapital ==
    pc = "optimized" => EndingCapital(log) = MaxChainCapital(trades)

\* C1 witness: a returned path of two trades on different assets that beats a
\* candidate trade spanning the whole range.
C1_Witness ==
    /\ pc = "optimized"
    /\ Len(log) = 2
    /\ log[1].trade.asset_id # log[2].trade.asset_id
    /\ \E k \in 1..Len(trades) :
          /\ trades[k].buy_date = dates[1]
          /\ trades[k].sell_date = LastDate
          /\ Lt(Mul(STARTING_CAPITAL, Div(trades[k].sell_price, trades[k].buy_price)),
                EndingCapital(log))

OptimalCapital == EndingCapital(optimize_trades(build_trades(prices), dates))

C2_ExampleSeries ==
    <<DailyValue(1, Float(10)), DailyValue(2, Float(15)),
      DailyValue(3, Float(8)), DailyValue(4, Float(20))>>

C2_BestTradeOptimal ==
    (pc = "best_trade_returned" /\ Len(values) >= 2) =>
        /\ bt.buy_day < bt.sell_day
        /\ \E i, j \in 1..Len(values) :
              /\ values[i] = DailyValue(bt.buy_day, bt.buy_value)
              /\ values[j] = DailyValue(bt.sell_day, bt.sell_value)
        /\ bt.gain = Sub(bt.sell_value, bt.buy_value)
        /\ \A i, j \in 1..Len(values) :
              i < j => Le(Sub(values[j].value, values[i].value), bt.gain)
        /\ values = C2_ExampleSeries =>
              bt = [buy_day |-> 3, buy_value |-> Float(8), sell_day |-> 4,
                    sell_value |-> Float(20), gain |-> Float(12),
                    gain_pct |-> <<3, 2>>]

\* C2 witness: best_trade has returned for the series 10, 15, 8, 20.
C2_Witness == pc = "best_trade_returned" /\ values = C2_ExampleSeries

\* C4: what an allocator hands out plus what it leaves is what it was given:
\* the capital_start of the returned trades plus the leftover equals the
\* capital passed in, and so invested + cash_left = capital_start in every
\* DailySummary of the simulator.
C4_CapitalConservation ==
    /\ pc = "allocated" =>
          Add(SumSeq(CapitalStarts(alloc.trades)), alloc.cash_left) = alloc.capital
    /\ pc \in {"simulate", "returned"} =>
          \A i \in 1..Len(summaries) :
              Add(summaries[i].invested, summaries[i].cash_left)
                  = summaries[i].capital_start

\* C4 witness: equal_split over three opportunities hands out thirds of 100.
C4_Witness ==
    /\ pc = "allocated"
    /\ alloc.strategy_name = "equal_split"
    /\ alloc.capital = STARTING_CAPITAL
    /\ Len(alloc.trades) = 3
    /\ alloc.trades[1].capital_start = <<100, 3>>

NonNegative(x) == Ge(x, Zero)

\* C5: no capital is ever negative: the running capital, the four amounts of
\* every DailySummary, the capital_start and capital_end of every trade of the
\* simulator, every best_capital and every log entry of the optimizer; and the
\* amount invested on a day is at most the capital at the start of that day.
C5_NoNegativeCapital ==
    /\ pc \in {"simulate", "returned"} =>
          /\ NonNegative(capital)
          /\ \A i \in 1..Len(summaries) :
                /\ NonNegative(summaries[i].capital_start)
                /\ NonNegative(summaries[i].capital_end)
                /\ NonNegative(summaries[i].invested)
                /\ NonNegative(summaries[i].cash_left)
                /\ Le(summaries[i].invested, summaries[i].capital_start)
          /\ \A i \in 1..Len(trades) :
                NonNegative(trades[i].capital_start) /\ NonNegative(trades[i].capital_end)
    /\ pc \in {"optimize", "reconstruct", "optimized"} =>
          \A d \in DOMAIN best_capital : NonNegative(best_capital[d])
    /\ pc = "reconstruct" =>
          \A i \in 1..Len(path_trades) :
              NonNegative(path_trades[i].capital_start)
              /\ NonNegative(path_trades[i].capital_end)
    /\ pc = "optimized" =>
          \A i \in 1..Len(log) :
              NonNegative(log[i].capital_start) /\ NonNegative(log[i].capital_end)

\* C5 witness: a greedy_one_unit run that traded on two days and kept cash,
\* over a price map where an asset with a negative price rises the next day.
C5_Witness ==
    /\ pc = "returned"
    /\ strategy_name = "greedy_one_unit"
    /\ Len(summaries) = 2
    /\ \A i \in 1..2 : summaries[i].trade_count >= 1 /\ Gt(summaries[i].cash_left, Zero)
    /\ \E a \in Assets : \E i \in 1..2 :
          /\ {dates[i], dates[i + 1]} \subseteq DOMAIN prices[a]
          /\ Lt(prices[a][dates[i]], Zero)
          /\ Gt(prices[a][dates[i + 1]], Zero)

\* C6: for every day d with a next day, among the assets priced on both days
\* with a positive buy price the recorded choice has the greatest factor
\* sell/buy if that is above 1.0; otherwise no asset is recorded and the
\* factor is exactly 1.0.
C6_Eligible(i) ==
    {a \in Assets : /\ {dates[i], dates[i + 1]} \subseteq DOMAIN prices[a]
                    /\ Gt(prices[a][dates[i]], Zero)}

C6_Factor(a, i) == Div(prices[a][dates[i + 1]], prices[a][dates[i]])

C6_BestDailyChoice ==
    pc # "main" =>
        \A i \in 1..(Len(dates) - 1) :
            LET c == best_daily[dates[i]]
            IN  IF \E a \in C6_Eligible(i) : Gt(C6_Factor(a, i), Float(1))
                THEN /\ c.asset_id \in C6_Eligible(i)
                     /\ c.buy_price = prices[c.asset_id][dates[i]]
                     /\ c.sell_price = prices[c.asset_id][dates[i + 1]]
                     /\ c.factor = C6_Factor(c.asset_id, i)
                     /\ Gt(c.factor, Float(1))
                     /\ \A a \in C6_Eligible(i) : Le(C6_Factor(a, i), c.factor)
                ELSE c = DailyChoice(dates[i], None, None, NoFloat, NoFloat, Float(1))

\* C6 witness: on the first day both assets gain and the second one, with the
\* greater factor, is recorded; on the second day an asset holds its price and
\* nothing is recorded.
C6_Witness ==
    /\ pc = "strategies"
    /\ Len(dates) = 3
    /\ C6_Eligible(1) = Assets
    /\ \A a \in Assets : Gt(C6_Factor(a, 1), Float(1))
    /\ best_daily[dates[1]].asset_id = AssetOrder[2]
    /\ Gt(C6_Factor(AssetOrder[2], 1), C6_Factor(AssetOrder[1], 1))
    /\ \E a \in C6_Eligible(2) : C6_Factor(a, 2) = Float(1)
    /\ best_daily[dates[2]].asset_id = None

Perms(n) == {f \in [1..n -> 1..n] : \A i, j \in 1..n : i # j => f[i] # f[j]}

\* The positions bought when the opportunities are visited in the order given
\* and one is bought exactly when its buy_price is at most the cash remaining.
RECURSIVE C7_Bought(_, _, _, _, _)
C7_Bought(opps, order, k, remaining, bought) ==
    IF k > Len(order) THEN bought
    ELSE IF Le(opps[order[k]].buy_price, remaining)
         THEN C7_Bought(opps, order, k + 1, Sub(remaining, opps[order[k]].buy_price),
                        Append(bought, order[k]))
         ELSE C7_Bought(opps, order, k + 1, remaining, bought)

C7_OneUnit(opp) ==
    Trade(opp.asset_id, opp.buy_date, opp.sell_date, opp.buy_price, opp.sell_price,
          Float(1), opp.buy_price, opp.sell_price)

C7_ExampleOpps == <<OppAt(1, <<3, 5>>), OppAt(2, <<8, 9>>)>>

\* C7: allocate_greedy_one_unit visits the opportunities in an order of
\* descending gain_pct, buys one unit (capital_start = buy_price, capital_end =
\* sell_price, units = 1) of exactly those whose buy_price is at most the cash
\* remaining when visited, leaves the capital minus the buy prices of the
\* bought ones, and so no unbought opportunity costs at most the leftover; with
\* capital 10 and (3 -> 5), (8 -> 9) it buys only the first and leaves 7.
C7_GreedyOneUnit ==
    (pc = "allocated" /\ alloc.strategy_name = "greedy_one_unit") =>
        /\ \E order \in Perms(Len(daily_opps)) :
              /\ \A i, j \in 1..Len(daily_opps) :
                    i < j => Ge(daily_opps[order[i]].gain_pct,
                                daily_opps[order[j]].gain_pct)
              /\ LET bought == C7_Bought(daily_opps, order, 1, alloc.capital, <<>>)
                 IN  /\ alloc.trades =
                           [i \in 1..Len(bought) |-> C7_OneUnit(daily_opps[bought[i]])]
                     /\ \A k \in 1..Len(daily_opps) :
                           (\A i \in 1..Len(bought) : bought[i] # k) =>
                               Gt(daily_opps[k].buy_price, alloc.cash_left)
        /\ alloc.cash_left = Sub(alloc.capital, SumSeq(CapitalStarts(alloc.trades)))
        /\ (daily_opps = C7_ExampleOpps /\ alloc.capital = Float(10)) =>
              /\ alloc.trades = <<C7_OneUnit(C7_ExampleOpps[1])>>
              /\ alloc.cash_left = Float(7)

\* C7 witness: with capital 7/2 the opportunity with the greatest gain_pct
\* costs too much and is skipped, and a later, cheaper one is bought.
C7_Witness ==
    /\ pc = "allocated"
    /\ alloc.strategy_name = "greedy_one_unit"
    /\ Len(daily_opps) = 3
    /\ Len(alloc.trades) = 1
    /\ \E k, j \in 1..3 :
          /\ alloc.trades[1].asset_id = daily_opps[j].asset_id
          /\ Gt(daily_opps[k].gain_pct, daily_opps[j].gain_pct)
          /\ Gt(daily_opps[k].buy_price, alloc.capital)
    /\ Gt(alloc.cash_left, Zero)

\* C8: allocate_all_in over a non-empty list returns one trade, on an
\* opportunity of greatest gain_pct, with the whole capital as capital_start,
\* capital * sell_price / buy_price as capital_end and leftover 0; over an
\* empty list it returns no trade and the capital as leftover.
C8_AllInOneTrade ==
    (pc = "allocated" /\ alloc.strategy_name = "all_in") =>
        IF daily_opps = <<>>
        THEN alloc.trades = <<>> /\ alloc.cash_left = alloc.capital
        ELSE /\ Len(alloc.trades) = 1
             /\ alloc.cash_left = Zero
             /\ \E k \in 1..Len(daily_opps) :
                   /\ \A j \in 1..Len(daily_opps) :
                         Le(daily_opps[j].gain_pct, daily_opps[k].gain_pct)
                   /\ alloc.trades[1].asset_id = daily_opps[k].asset_id
                   /\ alloc.trades[1].buy_date = daily_opps[k].buy_date
                   /\ alloc.trades[1].sell_date = daily_opps[k].sell_date
                   /\ alloc.trades[1].buy_price = daily_opps[k].buy_price
                   /\ alloc.trades[1].sell_price = daily_opps[k].sell_price
                   /\ alloc.trades[1].capital_start = alloc.capital
                   /\ alloc.trades[1].capital_end =
                         Div(Mul(alloc.capital, daily_opps[k].sell_price),
                             daily_opps[k].buy_price)

\* C8 witness: three opportunities of three different gains, the best one last.
C8_Witness ==
    /\ pc = "allocated"
    /\ alloc.strategy_name = "all_in"
    /\ Len(daily_opps) = 3
    /\ Lt(daily_opps[1].gain_pct, daily_opps[2].gain_pct)
    /\ Lt(daily_opps[2].gain_pct, daily_opps[3].gain_pct)
    /\ alloc.trades[1].asset_id = daily_opps[3].asset_id

\* C9: allocate_equal_split over N >= 1 opportunities returns N trades, the
\* i-th on the i-th opportunity with capital_start = capital / N, and leftover
\* 0; for N = 1 it returns what allocate_all_in returns; over an empty list it
\* returns no trade and the capital as leftover.
C9_EqualSplit ==
    (pc = "allocated" /\ alloc.strategy_name = "equal_split") =>
        LET N == Len(daily_opps)
        IN  IF N = 0
            THEN alloc.trades = <<>> /\ alloc.cash_left = alloc.capital
            ELSE /\ Len(alloc.trades) = N
                 /\ alloc.cash_left = Zero
                 /\ \A i \in 1..N :
                       /\ alloc.trades[i].asset_id = daily_opps[i].asset_id
                       /\ alloc.trades[i].buy_price = daily_opps[i].buy_price
                       /\ alloc.trades[i].sell_price = daily_opps[i].sell_price
                       /\ alloc.trades[i].capital_start = Div(alloc.capital, Float(N))
                 /\ N = 1 =>
                       AllocResult(alloc.trades, alloc.cash_left)
                           = allocate_all_in(daily_opps, alloc.capital)

\* C9 witness: three opportunities of different gains share 100 in thirds.
C9_Witness ==
    /\ pc = "allocated"
    /\ alloc.strategy_name = "equal_split"
    /\ alloc.capital = STARTING_CAPITAL
    /\ Len(daily_opps) = 3
    /\ daily_opps[1].gain_pct # daily_opps[2].gain_pct
    /\ alloc.trades[2].capital_start = <<100, 3>>

\* The trades of the simulator opened on a day, as a sequence.
OpenedOn(day) == SelectSeq(trades, LAMBDA t : t.buy_date = day)

\* C10: in simulate_daily_strategy each day's capital_end is that day's
\* leftover cash plus the capital_end of the trades opened that day (each sold
\* the next day); the first capital_start is STARTING_CAPITAL, each later one
\* the previous day's capital_end, and the capital returned is the last day's
\* capital_end.
C10_DailySettlement ==
    pc \in {"simulate", "returned"} =>
        /\ \A i \in 1..Len(summaries) :
              /\ summaries[i].capital_end =
                    Add(summaries[i].cash_left,
                        SumSeq(CapitalEnds(OpenedOn(summaries[i].day))))
              /\ summaries[i].trade_count = Len(OpenedOn(summaries[i].day))
              /\ summaries[i].capital_start =
                    IF i = 1 THEN STARTING_CAPITAL ELSE summaries[i - 1].capital_end
        /\ \A k \in 1..Len(trades) :
              \E i \in 1..(Len(dates) - 1) :
                  trades[k].buy_date = dates[i] /\ trades[k].sell_date = dates[i + 1]
        /\ (pc = "returned" /\ summaries # <<>>) =>
              ending_capital = summaries[Len(summaries)].capital_end

\* C10 witness: a greedy_one_unit run of two days that bought on both days and
\* kept cash on both, and has returned.
C10_Witness ==
    /\ pc = "returned"
    /\ strategy_name = "greedy_one_unit"
    /\ Len(summaries) = 2
    /\ \A i \in 1..2 : summaries[i].trade_count = 2 /\ Gt(summaries[i].cash_left, Zero)
    /\ Gt(ending_capital, summaries[2].capital_start)

\* C11: for a date list of n dates, compute_best_daily_choices holds exactly
\* one DailyChoice for each of the first n-1 dates and none for the final
\* date; simulate_daily_strategy appends exactly one DailySummary per day it
\* has processed, in date order, so that on return there is one for each of
\* the first n-1 dates and none for the final date; and no trade or
\* opportunity has the final date as its buy date.
C11_OneRecordPerDecisionDay ==
    LET n == Len(dates)
        decision_days == {dates[i] : i \in 1..(n - 1)}
    IN  /\ pc \in {"strategies", "simulate", "returned"} =>
              /\ DOMAIN best_daily = decision_days
              /\ \A d \in DOMAIN best_daily : best_daily[d].day = d
              /\ \A d \in DOMAIN opportunities :
                     \A k \in 1..Len(opportunities[d]) :
                         opportunities[d][k].buy_date # dates[n]
        /\ pc \in {"simulate", "returned"} =>
              /\ Len(summaries) = idx - 1
              /\ \A i \in 1..Len(summaries) : summaries[i].day = dates[i]
              /\ \A k \in 1..Len(trades) : trades[k].buy_date # dates[n]
        /\ pc = "returned" =>
              /\ Len(summaries) = n - 1
              /\ \A i \in 1..n : (\E k \in 1..Len(summaries) : summaries[k].day = dates[i])
                                     <=> i < n

\* A three-date run has returned with two summaries, and an asset that was
\* priced on the final date and could have been bought there was not.
C11_Witness ==
    /\ pc = "returned"
    /\ Len(dates) = MaxDates
    /\ Len(summaries) = MaxDates - 1
    /\ DOMAIN best_daily = {dates[1], dates[2]}
    /\ trades # <<>>
    /\ \E a \in Assets : LastDate \in DOMAIN prices[a] /\ Gt(prices[a][LastDate], Zero)

\* The assets that make an opportunity on the i-th date: priced on that date
\* and on the date that follows it in the list, bought above 0, sold higher.
C12_Profitable(i) ==
    {a \in Assets :
        /\ dates[i] \in DOMAIN prices[a]
        /\ dates[i + 1] \in DOMAIN prices[a]
        /\ Gt(prices[a][dates[i]], Zero)
        /\ Gt(prices[a][dates[i + 1]], prices[a][dates[i]])}

\* C12: build_opportunities returns, under key d, exactly one Opportunity for
\* each asset priced on d and on the date after d with sell_price > buy_price
\* and buy_price > 0, and nothing else: its keys are dates with a next date,
\* every Opportunity has buy_date = d, sell_date = the next date (one day
\* later), the prices of the price map, sell_price > buy_price and
\* gain_pct = (sell_price - buy_price) / buy_price > 0.
C12_OpportunitiesExact ==
    pc \in {"strategies", "simulate", "returned"} =>
        /\ DOMAIN opportunities \subseteq {dates[i] : i \in 1..(Len(dates) - 1)}
        /\ \A i \in 1..(Len(dates) - 1) :
              LET d == dates[i]
                  lst == OppsGet(opportunities, d)
              IN  /\ (d \in DOMAIN opportunities) <=> (C12_Profitable(i) # {})
                  /\ Len(lst) = Cardinality(C12_Profitable(i))
                  /\ \A a \in C12_Profitable(i) :
                         Cardinality({k \in 1..Len(lst) : lst[k].asset_id = a}) = 1
                  /\ \A k \in 1..Len(lst) :
                         LET o == lst[k]
                         IN  /\ o.asset_id \in C12_Profitable(i)
                             /\ o.buy_date = d
                             /\ o.sell_date = dates[i + 1]
                             /\ o.sell_date = o.buy_date + 1
                             /\ o.buy_price = prices[o.asset_id][d]
                             /\ o.sell_price = prices[o.asset_id][dates[i + 1]]
                             /\ Gt(o.sell_price, o.buy_price)
                             /\ o.gain_pct = Div(Sub(o.sell_price, o.buy_price), o.buy_price)
                             /\ Gt(o.gain_pct, Zero)

\* Both assets make an opportunity on the first date, and on the second date
\* none does although an asset is priced on it and on the third: one pair
\* holds its price or falls, or is bought at a price that is not positive.
C12_Witness ==
    /\ pc = "strategies"
    /\ Len(dates) = MaxDates
    /\ dates[1] \in DOMAIN opportunities
    /\ Len(opportunities[dates[1]]) = Cardinality(Assets)
    /\ dates[2] \notin DOMAIN opportunities
    /\ \E a \in Assets : {dates[2], dates[3]} \subseteq DOMAIN prices[a]

\* sell.value - buy.value for the values at indices i < j of the series.
C13_Gain(i, j) == Sub(values[j].value, values[i].value)

\* The tuples yielded for the pair of indices (i, j).
C13_YieldedFor(i, j) ==
    {k \in 1..Len(pt.yielded) :
        /\ pt.yielded[k].buy_day = values[i].day
        /\ pt.yielded[k].sell_day = values[j].day}

\* The pair (i, j) qualifies: its gain is above min_gain and, when
\* min_gain_pct is supplied, buy.value > 0 and gain / buy.value >= min_gain_pct.
C13_Qualifies(i, j) ==
    /\ Gt(C13_Gain(i, j), pt.min_gain)
    /\ pt.min_gain_pct # NoFloat =>
           /\ Gt(values[i].value, Zero)
           /\ Ge(Div(C13_Gain(i, j), values[i].value), pt.min_gain_pct)

\* The pair (i, j) qualifies as the claim words it: its gain is above min_gain
\* and, when min_gain_pct is supplied, gain / buy.value >= min_gain_pct (a
\* quotient by zero has no value and is above nothing).
C13_QualifiesAsWorded(i, j) ==
    /\ Gt(C13_Gain(i, j), pt.min_gain)
    /\ pt.min_gain_pct # NoFloat =>
           /\ values[i].value # Zero
           /\ Ge(Div(C13_Gain(i, j), values[i].value), pt.min_gain_pct)

\* Every yielded tuple is a pair of the series with buy before sell, carrying
\* the values of the pair, its gain and its gain_pct (None unless buy > 0).
C13_TuplesOfSeries ==
    \A k \in 1..Len(pt.yielded) :
        \E i \in 1..Len(values) : \E j \in (i + 1)..Len(values) :
            pt.yielded[k] =
                ProfitableTrade(values[i].day, values[i].value, values[j].day,
                                values[j].value, C13_Gain(i, j),
                                IF Gt(values[i].value, Zero)
                                THEN Div(C13_Gain(i, j), values[i].value)
                                ELSE NoFloat)

\* C13 (amended): iter_profitable_trades yields exactly the pairs (buy, sell)
\* with buy earlier than sell for which sell.value - buy.value > min_gain and,
\* when min_gain_pct is supplied, buy.value > 0 and
\* gain / buy.value >= min_gain_pct; each such pair once, and no other pair.
C13_ProfitablePairsExact ==
    pc = "profitable_returned" =>
        /\ C13_TuplesOfSeries
        /\ \A i \in 1..Len(values) : \A j \in (i + 1)..Len(values) :
               Cardinality(C13_YieldedFor(i, j)) = IF C13_Qualifies(i, j) THEN 1 ELSE 0

\* With min_gain_pct supplied, a pair bought above 0 was yielded, a pair bought
\* above 0 with enough gain was dropped for its gain_pct, and a pair bought at
\* a price that is not positive was dropped.
C13_Witness ==
    /\ pc = "profitable_returned"
    /\ pt.min_gain_pct # NoFloat
    /\ \E k \in 1..Len(pt.yielded) : Gt(pt.yielded[k].buy_value, Zero)
    /\ \E i \in 1..Len(values) : \E j \in (i + 1)..Len(values) :
           /\ Gt(values[i].value, Zero)
           /\ Gt(C13_Gain(i, j), pt.min_gain)
           /\ C13_YieldedFor(i, j) = {}
    /\ \E i \in 1..Len(values) : \E j \in (i + 1)..Len(values) :
           /\ Le(values[i].value, Zero)
           /\ Gt(C13_Gain(i, j), pt.min_gain)
           /\ C13_YieldedFor(i, j) = {}

\* C13 as worded: iter_profitable_trades yields exactly the pairs with buy
\* earlier than sell for which sell.value - buy.value > min_gain and, when
\* min_gain_pct is supplied, gain / buy.value >= min_gain_pct; each once.
C13_AsWorded ==
    pc = "profitable_returned" =>
        /\ C13_TuplesOfSeries
        /\ \A i \in 1..Len(values) : \A j \in (i + 1)..Len(values) :
               Cardinality(C13_YieldedFor(i, j)) =
                   IF C13_QualifiesAsWorded(i, j) THEN 1 ELSE 0

\* The opportunities, daily choices and candidate trades of
\* build_opportunities, compute_best_daily_choices and build_trades are all
\* bought above 0.
C14_GuardedFinders ==
    /\ opportunities # Unset =>
           \A d \in DOMAIN opportunities : \A k \in 1..Len(opportunities[d]) :
               Gt(opportunities[d][k].buy_price, Zero)
    /\ best_daily # Unset =>
           \A d \in DOMAIN best_daily :
               best_daily[d].asset_id # None => Gt(best_daily[d].buy_price, Zero)
    /\ \A k \in 1..Len(trades) : Gt(trades[k].buy_price, Zero)

\* C14 (amended): no opportunity, daily choice or trade produced by
\* build_opportunities, compute_best_daily_choices or build_trades has a zero
\* or negative buy price, for any input including zero or negative prices, and
\* neither has a pair yielded by iter_profitable_trades when min_gain_pct is
\* supplied; a pair returned by best_trade, or yielded by
\* iter_profitable_trades without min_gain_pct, may be bought at a zero or
\* negative value, and then its gain_pct is None.
C14_NoNonPositiveBuy ==
    /\ C14_GuardedFinders
    /\ pt # Unset =>
           \A k \in 1..Len(pt.yielded) :
               /\ pt.min_gain_pct # NoFloat => Gt(pt.yielded[k].buy_value, Zero)
               /\ Le(pt.yielded[k].buy_value, Zero) => pt.yielded[k].gain_pct = NoFloat
    /\ (pc = "best_trade_returned" /\ bt # NoResult) =>
           (Le(bt.buy_value, Zero) => bt.gain_pct = NoFloat)

\* build_trades has produced trades from a series in which a price that is not
\* positive is followed by a higher price: a pair the guard kept out.
C14_Witness ==
    /\ pc = "optimize"
    /\ trades # <<>>
    /\ \E a \in Assets : \E d1, d2 \in DOMAIN prices[a] :
           /\ d1 < d2
           /\ Le(prices[a][d1], Zero)
           /\ Gt(prices[a][d2], prices[a][d1])

\* C14 as worded: no trade, opportunity or buy/sell pair produced by any
\* finder (best_trade, iter_profitable_trades, build_opportunities,
\* build_trades, compute_best_daily_choices) has a zero or negative buy price.
C14_AsWorded ==
    /\ C14_GuardedFinders
    /\ pt # Unset => \A k \in 1..Len(pt.yielded) : Gt(pt.yielded[k].buy_value, Zero)
    /\ (pc = "best_trade_returned" /\ bt # NoResult) => Gt(bt.buy_value, Zero)

\* The rows of the file that the loader accepts and that map to asset_id a
\* and date d.
C15_RowsOf(a, d) ==
    {i \in 1..Len(rows) :
        /\ ~RowSkipped(loader, rows[i])
        /\ KeyAssetId(loader, RowKey(loader, rows[i])) = a
        /\ rows[i].Date = d}

RECURSIVE C15_Sum(_)
C15_Sum(I) ==
    IF I = {} THEN Zero
    ELSE LET i == CHOOSE j \in I : TRUE IN Add(rows[i].Value, C15_Sum(I \ {i}))

\* C15: for every asset_id and date in the price map a loader returns, the
\* recorded price is the arithmetic mean of the Value of all accepted rows
\* that map to that asset_id and that date, rows that differ only in League,
\* Type or Name included.
C15_PriceIsMeanOfRows ==
    pc = "loaded" =>
        \A a \in DOMAIN prices : \A d \in DOMAIN prices[a] :
            prices[a][d] = Div(C15_Sum(C15_RowsOf(a, d)),
                               Float(Cardinality(C15_RowsOf(a, d))))

\* A float of an output is a number: not an infinity or NaN (denominator 0).
C16_Finite(x) == x[2] > 0

\* C16: in any run of the finders, the simulator and the optimizer over any
\* price map (prices may be zero or negative), every division about to be
\* executed divides by a positive buy price, capital_start or count, so no
\* ZeroDivisionError is raised; the cases without a division give the
\* sentinels (factor 1.0 with no asset, Trade.gain_pct = 0.0 when
\* capital_start <= 0, gain_pct = 0.0 when buy_price <= 0), and no infinity
\* or NaN reaches the capital, the factors or the gain_pct of the outputs.
C16_NoDegenerateDivision ==
    /\ pc = "main" =>
           /\ \A x \in BuildOppsDivisors(dates, prices) : Gt(x, Zero)
           /\ \A i \in 1..(Len(dates) - 1) :
                  \A x \in BestChoiceDivisors(dates[i], dates[i + 1], prices) :
                      Gt(x, Zero)
    /\ pc \in {"strategies", "simulate", "returned"} =>
           /\ \A d \in DOMAIN best_daily :
                  /\ C16_Finite(best_daily[d].factor)
                  /\ best_daily[d].asset_id = None => best_daily[d].factor = Float(1)
           /\ \A d \in DOMAIN opportunities : \A k \in 1..Len(opportunities[d]) :
                  C16_Finite(opportunities[d][k].gain_pct)
    /\ (pc = "simulate" /\ idx <= Len(dates) - 1) =>
           \A x \in AllocateDivisors(strategy_name,
                                     OppsGet(opportunities, dates[idx]), capital) :
               Gt(x, Zero)
    /\ pc \in {"simulate", "returned"} =>
           /\ C16_Finite(capital)
           /\ \A k \in 1..Len(trades) :
                  /\ \A x \in TradeGainPctDivisors(trades[k]) : Gt(x, Zero)
                  /\ C16_Finite(TradeGainPct(trades[k]))
                  /\ Le(trades[k].capital_start, Zero) => TradeGainPct(trades[k]) = Zero
    /\ (pc = "optimize" /\ idx <= Len(dates)) =>
           \A x \in OptimizeDivisors(trades, dates[idx]) : Gt(x, Zero)
    /\ (pc = "reconstruct" /\ current # dates[1]) =>
           \A x \in ReconstructDivisors([current |-> current,
                                         path_trades |-> path_trades],
                                        [best_capital |-> best_capital, prev |-> prev],
                                        dates) :
               Gt(x, Zero)
    /\ pc \in {"optimize", "reconstruct", "optimized"} =>
           /\ \A d \in DOMAIN best_capital : C16_Finite(best_capital[d])
           /\ \A k \in 1..Len(trades) :
                  /\ \A x \in TimelineGainPctDivisors(trades[k]) : Gt(x, Zero)
                  /\ C16_Finite(TimelineGainPct(trades[k]))
                  /\ Le(trades[k].buy_price, Zero) => TimelineGainPct(trades[k]) = Zero
    /\ pc = "optimized" =>
           \A k \in 1..Len(log) :
               C16_Finite(log[k].units) /\ C16_Finite(log[k].capital_end)

\* An allocator is about to divide by the buy price of an opportunity on a
\* day on which another asset, priced on that day and the next, is skipped
\* because its price is zero or negative.
C16_Witness ==
    /\ pc = "simulate"
    /\ idx <= Len(dates) - 1
    /\ strategy_name = "equal_split"
    /\ AllocateDivisors(strategy_name, OppsGet(opportunities, dates[idx]), capital) # {}
    /\ \E a \in Assets :
           /\ {dates[idx], dates[idx + 1]} \subseteq DOMAIN prices[a]
           /\ Le(prices[a][dates[idx]], Zero)
           /\ Gt(prices[a][dates[idx + 1]], prices[a][dates[idx]])

\* C17: a non-positive starting capital is rejected before any computation
\* starts: with STARTING_CAPITAL <= 0 simulate_daily_strategy processes no day
\* (no allocation, no trade, no summary) and returns no capital, and
\* optimize_trades processes no date and returns no log.
C17_NonPositiveCapitalRejected ==
    Le(starting_capital, Zero) =>
        /\ pc = "simulate" => (idx = 1 /\ trades = <<>> /\ summaries = <<>>)
        /\ pc = "optimize" => idx = 1
        /\ pc \notin {"returned", "reconstruct", "optimized"}

\* C18: when a required input file is absent, main of each script aborts with
\* an error before any computation and before any output directory or file
\* is created: nothing has been created or loaded at any point of such a run,
\* and once main is past its first statements the run has ended with
\* FileNotFoundError.
C18_MissingInputAbortsFirst ==
    (script \in ScriptNames /\ present # InputFiles) =>
        /\ created = {}
        /\ dates = Unset /\ prices = Unset
        /\ pc \in {"entry", "aborted"}
        /\ pc = "aborted" => error = "FileNotFoundError"

\* C19: when optimize_trades returns an empty log for a bucket, run_bucket
\* ends with ValueError and the run leaves no log CSV and no chart behind, for
\* that bucket or for an earlier one; a run that ends without error had a
\* non-empty log for its last bucket.
C19_EmptyLogLeavesNoOutput ==
    script = "phrecia_profit_timeline_gantt" =>
        /\ (pc = "aborted" /\ present = InputFiles) =>
               /\ error = "ValueError"
               /\ log = <<>>
               /\ created \cap BucketOutputs = {}
        /\ pc = "done" => log # <<>>

\* The fields of a DailyChoice that C20 compares.
C20_Selection(c) == <<c.asset_id, c.buy_price, c.sell_price, c.factor>>

\* C20: the results do not depend on the meta map.  With the dates and the
\* price map of the run, compute_best_daily_choices under any other meta map
\* selects, for every day, the asset, buy price, sell price and factor the run
\* recorded; and the trades, daily summaries and ending capital the run's
\* simulate_daily_strategy returned are those of the call on the
\* opportunities of the price map, whatever the meta map was.
C20_MetaIndependence ==
    /\ pc = "strategies" =>
           \A other \in MetaMaps :
               LET again == compute_best_daily_choices(dates, prices, other)
               IN  /\ DOMAIN again = DOMAIN best_daily
                   /\ \A d \in DOMAIN best_daily :
                          C20_Selection(again[d]) = C20_Selection(best_daily[d])
    /\ pc = "returned" =>
           LET r == simulate_daily_strategy(dates, build_opportunities(dates, prices),
                                            strategy_name)
           IN  /\ trades = r.trades
               /\ summaries = r.summaries
               /\ ending_capital = r.capital

\* C20 witness: the run's meta map calls the chosen asset an item, another
\* meta map calls it a currency, and the day's choice is an actual asset.
C20_Witness ==
    /\ pc = "strategies"
    /\ Len(dates) >= 2
    /\ best_daily[dates[1]].asset_id # None
    /\ best_daily[dates[1]].asset_type = "item"
    /\ \E other \in MetaMaps :
           compute_best_daily_choices(dates, prices, other)[dates[1]].asset_type = "currency"

\* The locals of simulate_daily_strategy after its first k days, run again
\* from the start on the same dates, opportunities and policy.
C21_RunAgain(k) ==
    SimulateRun(SimulateStart, SubSeq(dates, 1, k + 1), opportunities, strategy_name)

\* What a state between two steps of the scripts shows of C21: the finished
\* allocator call and the simulator's locals are those a second run returns.
C21_SameOnSecondRun ==
    /\ pc = "allocated" =>
           LET again == Allocate(alloc.strategy_name, daily_opps, alloc.capital)
           IN  alloc.trades = again.trades /\ alloc.cash_left = again.cash_left
    /\ pc \in {"simulate", "returned"} =>
           LET again == C21_RunAgain(idx - 1)
           IN  /\ trades = again.trades
               /\ summaries = again.summaries
               /\ capital = again.capital
    /\ pc = "returned" =>
           LET again == simulate_daily_strategy(dates, opportunities, strategy_name)
           IN  /\ trades = again.trades
               /\ summaries = again.summaries
               /\ ending_capital = again.capital

C22_DateSeededBeforeProcessing ==
    /\ (pc = "optimize" /\ idx <= Len(dates)) =>
           /\ dates[idx] \in DOMAIN best_capital
           /\ dates[idx] \in DOMAIN prev
           /\ idx > 1 =>
                  /\ dates[idx - 1] \in DOMAIN best_capital
                  /\ Ge(best_capital[dates[idx]], best_capital[dates[idx - 1]])
    /\ (pc = "reconstruct" /\ current # dates[1]) =>
           LET p == PrevGet(prev, current, dates)
           IN  /\ current \in DOMAIN prev
               /\ p[2] # NoTrade => p[1] \in DOMAIN best_capital

\* C22 witness: the loop starts on the second of three dates while a trade
\* bought on the first date and sold on the third has already written the
\* third date, two days ahead of the loop.
C22_Witness ==
    /\ pc = "optimize"
    /\ Len(dates) = 3
    /\ idx = 2
    /\ dates[3] \in DOMAIN prev
    /\ prev[dates[3]][1] = dates[1]
    /\ prev[dates[3]][2] # NoTrade

\* The non-none trades met when the backpointers are followed from date d
\* back to the first date, earliest first.
RECURSIVE C23_PathTrades(_)
C23_PathTrades(d) ==
    IF d = dates[1] THEN <<>>
    ELSE LET p == prev[d]
         IN  C23_PathTrades(p[1]) \o (IF p[2] = NoTrade THEN <<>> ELSE <<p[2]>>)

\* C23: the log optimize_trades returns is in chronological order and its
\* trades never overlap: every entry buys before it sells, on dates of the
\* range, each entry sells on or before the day the next one buys, and the
\* log holds exactly the non-none trades of the backpointer path from the
\* last date to the first.
C23_LogChronological ==
    pc = "optimized" =>
        /\ \A k \in 1..Len(log) :
               /\ log[k].trade.buy_date < log[k].trade.sell_date
               /\ {log[k].trade.buy_date, log[k].trade.sell_date} \subseteq DateSet
        /\ \A k \in 1..(Len(log) - 1) :
               log[k].trade.sell_date <= log[k + 1].trade.buy_date
        /\ [k \in 1..Len(log) |-> log[k].trade] = C23_PathTrades(LastDate)

\* C23 witness: a log of two trades over three dates, the first sold on the
\* day the second is bought.
C23_Witness ==
    /\ pc = "optimized"
    /\ Len(log) = 2
    /\ log[1].trade.sell_date = log[2].trade.buy_date
    /\ log[1].trade.asset_id # log[2].trade.asset_id

\* The switching simulator stands on a decision day holding a position.
C24_Holding == pc = "switching" /\ idx <= Len(dates) - 1 /\ position # <<>>

\* C24: the switching simulator holds at most one open position at any time;
\* on a day whose best-next-day asset is the asset held it leaves the position
\* (and the realized trades) untouched; when the chosen asset differs it closes
\* the position at the current day's price; and it closes any open position on
\* the final day, so that none is open when the simulation has ended.
C24_SwitchingPositions ==
    /\ [](position # Unset => Len(position) <= 1)
    /\ [](pc = "switched" => position = <<>>)
    /\ [][(C24_Holding /\ best_daily[dates[idx]].asset_id = HeldAsset(position))
              => (position' = position /\ trades' = trades)]_vars
    /\ [][(C24_Holding /\ best_daily[dates[idx]].asset_id # HeldAsset(position))
              => /\ Len(trades') = Len(trades) + 1
                 /\ trades'[Len(trades')].asset_id = position[1].asset_id
                 /\ trades'[Len(trades')].buy_date = position[1].buy_date
                 /\ trades'[Len(trades')].sell_date = dates[idx]
                 /\ trades'[Len(trades')].sell_price = prices[position[1].asset_id][dates[idx]]
                 /\ \A k \in 1..Len(position') : position'[k].buy_date = dates[idx]]_vars
    /\ [][(pc = "switching" /\ idx > Len(dates) - 1 /\ position # <<>>)
              => /\ position' = <<>>
                 /\ Len(trades') = Len(trades) + 1
                 /\ trades'[Len(trades')].sell_date = dates[Len(dates)]]_vars

\* C24 witness: the run ended after a position was let ride over a day, then
\* switched to another asset, which the final day closed.
C24_Witness ==
    /\ pc = "switched"
    /\ Len(dates) = 3
    /\ Len(trades) = 1
    /\ trades[1].buy_date = dates[1]
    /\ trades[1].sell_date = dates[3]

\* The gain of buying on the i-th day of the series and selling on the j-th.
C25_Gain(i, j) == Sub(values[j].value, values[i].value)

\* The pairs (buy, sell), buy before sell, whose gain no other pair exceeds.
C25_MaximalPairs ==
    {q \in (1..Len(values)) \X (1..Len(values)) :
        /\ q[1] < q[2]
        /\ \A i, j \in 1..Len(values) : i < j => Le(C25_Gain(i, j), C25_Gain(q[1], q[2]))}

\* The earliest sell day among the maximal pairs, and the earliest day before
\* it that holds the least value of the days before it.
C25_Sell == CHOOSE j \in {q[2] : q \in C25_MaximalPairs} : \A q \in C25_MaximalPairs : j <= q[2]
C25_Buy ==
    CHOOSE i \in 1..(C25_Sell - 1) :
        /\ \A k \in 1..(C25_Sell - 1) : Le(values[i].value, values[k].value)
        /\ \A k \in 1..(i - 1) : Lt(values[i].value, values[k].value)

\* C25: when several pairs share the maximal gain, best_trade returns the one
\* that sells on the earliest day reaching that gain and buys on the earliest
\* day holding the running minimum in force on that sell day.
C25_FirstMaximalPairWins ==
    (pc = "best_trade_returned" /\ Len(values) >= 2) =>
        /\ bt.sell_day = values[C25_Sell].day
        /\ bt.sell_value = values[C25_Sell].value
        /\ bt.buy_day = values[C25_Buy].day
        /\ bt.buy_value = values[C25_Buy].value
        /\ bt.gain = C25_Gain(C25_Buy, C25_Sell)

\* C25 witness: best_trade has returned for a series in which two sell days
\* reach the maximal gain and two days before the first of them hold the
\* minimum.
C25_Witness ==
    /\ pc = "best_trade_returned"
    /\ Len(values) = 4
    /\ values[1].value = values[2].value
    /\ values[3].value = values[4].value
    /\ Gt(values[3].value, values[1].value)
    /\ bt.buy_day = values[1].day
    /\ bt.sell_day = values[3].day

\* C26: the capital along the log of optimize_trades is a chain: the first
\* entry starts from STARTING_CAPITAL, every later entry starts from the
\* capital the entry before it ended with, every entry ends with
\* capital_start * sell_price / buy_price, and the capital the last entry
\* ends with, which ending_capital reports, is best_capital of the last date.
C26_CapitalChain ==
    pc = "optimized" =>
        /\ Len(log) > 0 => log[1].capital_start = STARTING_CAPITAL
        /\ \A k \in 2..Len(log) : log[k].capital_start = log[k - 1].capital_end
        /\ \A k \in 1..Len(log) :
               log[k].capital_end =
                   Div(Mul(log[k].capital_start, log[k].trade.sell_price),
                       log[k].trade.buy_price)
        /\ EndingCapital(log) = best_capital[LastDate]

\* C26 witness: a log of two trades, the second starting from the capital the
\* first ended with, above STARTING_CAPITAL.
C26_Witness ==
    /\ pc = "optimized"
    /\ Len(dates) = 3
    /\ Len(log) = 2
    /\ Gt(log[2].capital_end, log[2].capital_start)
    /\ Gt(log[2].capital_start, STARTING_CAPITAL)

\* C27: the reconstruction loop of optimize_trades terminates: every
\* iteration moves current to a strictly earlier date of the range, the loop
\* is left at the first date and the log is returned; with a single date it
\* is left at once, with an empty log.
C27_ReconstructionTerminates ==
    /\ [](pc = "reconstruct" => current \in DateSet)
    /\ []((pc = "optimized" /\ Len(dates) = 1) => log = <<>>)
    /\ [][(pc = "reconstruct" /\ pc' = "reconstruct")
              => (current' \in DateSet /\ current' < current)]_vars
    /\ (pc = "reconstruct") ~> (pc = "optimized" /\ current = dates[1])

\* C27 witness: the loop is at the last of three dates, whose backpointer is
\* a trade bought on the first date, so one iteration goes back two days.
C27_Witness ==
    /\ pc = "reconstruct"
    /\ Len(dates) = 3
    /\ current = dates[3]
    /\ prev[current][1] = dates[1]
    /\ prev[current][2] # NoTrade

C29_AllIn == simulate_daily_strategy(dates, opportunities, "all_in")

C30_NoPairGains ==
    \A i, j \in 1..Len(values) : i < j => Le(values[j].value, values[i].value)

\* C30: best_trade returns None exactly when the series has fewer than two
\* priced days. For two or more it returns a tuple whose buy day is strictly
\* before its sell day, whose values are the values of those days and whose
\* gain is sell_value - buy_value, also when no pair gains (the gain is then
\* zero or negative); gain_pct is None exactly when the returned buy value is
\* not positive, and gain / buy_value otherwise.
C30_ResultShape ==
    pc = "best_trade_returned" =>
        /\ bt = NoResult <=> Len(values) < 2
        /\ Len(values) >= 2 =>
              /\ DOMAIN bt = {"buy_day", "buy_value", "sell_day", "sell_value",
                              "gain", "gain_pct"}
              /\ bt.buy_day < bt.sell_day
              /\ \E i, j \in 1..Len(values) :
                    /\ i < j
                    /\ values[i] = DailyValue(bt.buy_day, bt.buy_value)
                    /\ values[j] = DailyValue(bt.sell_day, bt.sell_value)
              /\ bt.gain = Sub(bt.sell_value, bt.buy_value)
              /\ C30_NoPairGains => Le(bt.gain, Zero)
              /\ bt.gain_pct = NoFloat <=> Le(bt.buy_value, Zero)
              /\ Gt(bt.buy_value, Zero) => bt.gain_pct = Div(bt.gain, bt.buy_value)

\* C30 witness: best_trade has returned for a series of three days that falls
\* every day: the tuple has a negative gain and a negative gain_pct.
C30_Witness ==
    /\ pc = "best_trade_returned"
    /\ Len(values) = 3
    /\ Lt(values[2].value, values[1].value)
    /\ Lt(values[3].value, values[2].value)
    /\ bt # NoResult
    /\ Lt(bt.gain, Zero)
    /\ bt.gain_pct # NoFloat
    /\ Lt(bt.gain_pct, Zero)

====
